---- MODULE Spec2Model ----
(***************************************************************************)
(* A model of the SIA (v2) service of lsst-sqre/vo-siav2: the package      *)
(* `sia` and its predecessor `vosiav2`.                                    *)
(*                                                                         *)
(* Python values are tagged records ([t |-> "int", v |-> 5],               *)
(* [t |-> "str", v |-> <<"5">>], ...), so that an int and its string form  *)
(* are different values, as they are in Python.  A Python str is a         *)
(* sequence of one-character strings, so that lower() and upper() are      *)
(* computed character by character.  A raised exception is a record        *)
(* [t |-> "exc", type, detail], the detail being the sequence of the       *)
(* pieces its message is formatted from.                                   *)
(***************************************************************************)
EXTENDS Integers, Sequences, FiniteSets, TLC

VARIABLES
    call,       \* the call made: the operation and what it is given
    last,       \* what has been performed of the call, and its outcome
    config,     \* sia.config.config: the Config instance of package sia
    v2config    \* vosiav2.config.config: the Config instance of package vosiav2

vars == <<call, last, config, v2config>>

(***************************************************************************)
(* Bounds of the model.                                                    *)
(***************************************************************************)
\* longest list of values given to one parameter key
MaxValues == 2
\* largest maxrec value supplied
MaxRec == 2
\* most items in one POST body
MaxItems == 2
\* most data collections in one configuration
MaxCollections == 2

(***************************************************************************)
(* Python values.                                                          *)
(***************************************************************************)
None == [t |-> "none"]
IntV(n) == [t |-> "int", v |-> n]
StrV(s) == [t |-> "str", v |-> s]
ListV(xs) == [t |-> "list", v |-> xs]
Member(enum, name) == [t |-> "enum", enum |-> enum, name |-> name]
UploadFile == [t |-> "file"]
Lit(x) == [t |-> "lit", v |-> x]
Dict(d) == [t |-> "dict", d |-> d]
Raise(type, detail) == [t |-> "exc", type |-> type, detail |-> detail]
\* pydantic.HttpUrl and pathlib.Path objects, holding their text
HttpUrl(s) == [t |-> "url", v |-> s]
Path(s) == [t |-> "path", v |-> s]
IsExc(x) == x.t = "exc"

\* bool(x) of a str or None: the `not value` / `if label` tests
Truthy(x) == CASE x.t = "none" -> FALSE
               [] x.t = "str" -> x.v # <<>>
               [] x.t = "int" -> x.v # 0
               [] x.t = "list" -> x.v # <<>>
               [] OTHER -> TRUE

(***************************************************************************)
(* str.lower() and str.upper(), character by character.                    *)
(***************************************************************************)
LowerLetters == <<"a","b","c","d","e","f","g","h","i","j","k","l","m",
                  "n","o","p","q","r","s","t","u","v","w","x","y","z">>
UpperLetters == <<"A","B","C","D","E","F","G","H","I","J","K","L","M",
                  "N","O","P","Q","R","S","T","U","V","W","X","Y","Z">>

LowerChar(c) ==
    IF \E i \in DOMAIN UpperLetters : UpperLetters[i] = c
    THEN LowerLetters[CHOOSE i \in DOMAIN UpperLetters : UpperLetters[i] = c]
    ELSE c

UpperChar(c) ==
    IF \E i \in DOMAIN LowerLetters : LowerLetters[i] = c
    THEN UpperLetters[CHOOSE i \in DOMAIN LowerLetters : LowerLetters[i] = c]
    ELSE c

lower(s) == [i \in DOMAIN s |-> LowerChar(s[i])]
upper(s) == [i \in DOMAIN s |-> UpperChar(s[i])]

\* every spelling of s that differs from it only in the case of its letters
CaseVariants(s) ==
    { [i \in DOMAIN s |-> IF i \in U THEN UpperChar(s[i]) ELSE LowerChar(s[i])] :
        U \in SUBSET (DOMAIN s) }

\* str(n) of a small non-negative int
Digits == <<"0","1","2","3","4","5","6","7","8","9">>
PyStr(x) == CASE x.t = "int" -> StrV(<<Digits[x.v + 1]>>)
              [] x.t = "str" -> x
              [] x.t \in {"url", "path"} -> StrV(x.v)
              [] OTHER -> x

(***************************************************************************)
(* models/common.py, models/sia_query_params.py: the enumerations.         *)
(* An Enum class is its name and the sequence of its members, in           *)
(* definition order; a member is a name and a value.                       *)
(***************************************************************************)
Shape == [name |-> "Shape", str |-> TRUE, members |-> <<
    [name |-> "CIRCLE", value |-> StrV(<<"C","I","R","C","L","E">>)],
    [name |-> "RANGE", value |-> StrV(<<"R","A","N","G","E">>)],
    [name |-> "POLYGON", value |-> StrV(<<"P","O","L","Y","G","O","N">>)] >>]

DPType == [name |-> "DPType", str |-> TRUE, members |-> <<
    [name |-> "IMAGE", value |-> StrV(<<"I","M","A","G","E">>)],
    [name |-> "CUBE", value |-> StrV(<<"C","U","B","E">>)] >>]

Polarization == [name |-> "Polarization", str |-> TRUE, members |-> <<
    [name |-> "I", value |-> StrV(<<"I">>)],
    [name |-> "Q", value |-> StrV(<<"Q">>)],
    [name |-> "U", value |-> StrV(<<"U">>)],
    [name |-> "V", value |-> StrV(<<"V">>)],
    [name |-> "RR", value |-> StrV(<<"R","R">>)],
    [name |-> "LL", value |-> StrV(<<"L","L">>)],
    [name |-> "RL", value |-> StrV(<<"R","L">>)],
    [name |-> "LR", value |-> StrV(<<"L","R">>)],
    [name |-> "XX", value |-> StrV(<<"X","X">>)],
    [name |-> "YY", value |-> StrV(<<"Y","Y">>)],
    [name |-> "XY", value |-> StrV(<<"X","Y">>)],
    [name |-> "YX", value |-> StrV(<<"Y","X">>)] >>]

CalibLevel == [name |-> "CalibLevel", str |-> FALSE, members |-> <<
    [name |-> "LEVEL0", value |-> IntV(0)],
    [name |-> "LEVEL1", value |-> IntV(1)],
    [name |-> "LEVEL2", value |-> IntV(2)],
    [name |-> "LEVEL3", value |-> IntV(3)] >>]

\* the CaseInsensitiveEnum of test_case_insensitive_enum: lower-case values
TestEnum == [name |-> "TestEnum", str |-> TRUE, members |-> <<
    [name |-> "A", value |-> StrV(<<"a">>)],
    [name |-> "B", value |-> StrV(<<"b">>)] >>]

CaseInsensitiveEnums == {Shape, DPType, Polarization, TestEnum}

\* the first member, in definition order, among those at the indices hits
FirstMember(E, hits) ==
    LET i == CHOOSE i \in hits : \A j \in hits : i <= j
    IN Member(E.name, E.members[i].name)

\* ValueError(f"{value!r} is not a valid {cls.__name__}")
NotAValid(value, E) ==
    Raise("ValueError", <<value, Lit(" is not a valid "), Lit(E.name)>>)

\* a _missing_ that lowers the input and not the member's value
M_missing_(E, value) ==
    LET hits == { i \in DOMAIN E.members : E.members[i].value.v = lower(value.v) }
    IN IF value.t # "str" THEN None
       ELSE IF hits # {} THEN FirstMember(E, hits)
       ELSE NotAValid(value, E)

\* CaseInsensitiveEnum._missing_
_missing_(E, value) ==
    LET hits == { i \in DOMAIN E.members :
                    lower(E.members[i].value.v) = lower(value.v) }
    IN IF value.t # "str" THEN None
       ELSE IF hits # {} THEN FirstMember(E, hits)
       ELSE NotAValid(value, E)

\* E(value): Enum's lookup by value, then _missing_ (Enum._missing_ of a
\* plain Enum returns None), then ValueError when that gave None
EnumCall(E, value) ==
    LET exact == { i \in DOMAIN E.members : E.members[i].value = value }
        missing == IF E \in CaseInsensitiveEnums THEN _missing_(E, value) ELSE None
    IN IF exact # {}
       THEN FirstMember(E, exact)
       ELSE IF missing = None THEN NotAValid(value, E) ELSE missing

\* the input strings tried on an enum: every spelling of every member's
\* value, and for each of them a prefix, an extension and the empty string
EnumInputs(E) ==
    LET spellings == UNION { CaseVariants(E.members[i].value.v) : i \in DOMAIN E.members }
    IN spellings
       \cup { SubSeq(s, 1, Len(s) - 1) : s \in spellings }
       \cup { s \o <<c>> : s \in spellings, c \in {"Z", "e"} }

(***************************************************************************)
(* A Python dict is the sequence of its items [k, v] in insertion order;   *)
(* its keys are pairwise different when it is built with DictSet alone.    *)
(***************************************************************************)
Item(k, v) == [k |-> k, v |-> v]
DictHas(d, k) == \E i \in DOMAIN d : d[i].k = k
DictIndex(d, k) == CHOOSE i \in DOMAIN d : d[i].k = k
DictGet(d, k) == d[DictIndex(d, k)].v
DictSet(d, k, v) ==
    IF DictHas(d, k)
    THEN [d EXCEPT ![DictIndex(d, k)] = Item(k, v)]
    ELSE Append(d, Item(k, v))
DictKeys(d) == { d[i].k : i \in DOMAIN d }

\* sequences over S of length lo..hi
SeqsOf(S, lo, hi) == UNION { [1..n -> S] : n \in lo..hi }

(***************************************************************************)
(* sia/models/sia_query_params.py: SIAQueryParams.                         *)
(***************************************************************************)
K_pos == <<"p","o","s">>
K_format == <<"f","o","r","m","a","t">>
K_time == <<"t","i","m","e">>
K_band == <<"b","a","n","d">>
K_pol == <<"p","o","l">>
K_fov == <<"f","o","v">>
K_spatres == <<"s","p","a","t","r","e","s">>
K_exptime == <<"e","x","p","t","i","m","e">>
K_timeres == <<"t","i","m","e","r","e","s">>
K_specrp == <<"s","p","e","c","r","p">>
K_id == <<"i","d">>
K_dptype == <<"d","p","t","y","p","e">>
K_calib == <<"c","a","l","i","b">>
K_target == <<"t","a","r","g","e","t">>
K_collection == <<"c","o","l","l","e","c","t","i","o","n">>
K_facility == <<"f","a","c","i","l","i","t","y">>
K_instrument == <<"i","n","s","t","r","u","m","e","n","t">>
K_maxrec == <<"m","a","x","r","e","c">>
K_responseformat == <<"r","e","s","p","o","n","s","e","f","o","r","m","a","t">>

\* SIAQueryParams.__annotations__: the fields of the dataclass, in order
SIAQueryParams_annotations == <<
    K_pos, K_format, K_time, K_band, K_pol, K_fov, K_spatres, K_exptime,
    K_timeres, K_specrp, K_id, K_dptype, K_calib, K_target, K_collection,
    K_facility, K_instrument, K_maxrec, K_responseformat >>

SIAQueryParams_fields ==
    { SIAQueryParams_annotations[i] : i \in DOMAIN SIAQueryParams_annotations }

\* SIAQueryParams.all_params_none
all_params_none(self) ==
    \A attr \in SIAQueryParams_fields :
        attr \notin {K_maxrec, K_responseformat} => self.f[attr] = None

\* a __post_init__ that fills maxrec in only when none was supplied
M__post_init__(self) ==
    IF all_params_none(self) /\ self.f[K_maxrec] = None
    THEN [self EXCEPT !.f[K_maxrec] = IntV(0)]
    ELSE self

\* SIAQueryParams.__post_init__
__post_init__(self) ==
    IF all_params_none(self)
    THEN [self EXCEPT !.f[K_maxrec] = IntV(0)]
    ELSE self

\* SIAQueryParams(**data): the dataclass's generated __init__ (every field
\* defaults to None, a keyword that is no field is a TypeError, no value is
\* converted or validated), then __post_init__
SIAQueryParams(data) ==
    LET unknown == { i \in DOMAIN data : data[i].k \notin SIAQueryParams_fields }
        first == CHOOSE i \in unknown : \A j \in unknown : i <= j
    IN IF unknown # {}
       THEN Raise("TypeError",
                  <<Lit("SIAQueryParams.__init__() got an unexpected keyword argument "),
                    StrV(data[first].k)>>)
       ELSE __post_init__(
                [t |-> "SIAQueryParams",
                 f |-> [attr \in SIAQueryParams_fields |->
                           IF DictHas(data, attr) THEN DictGet(data, attr) ELSE None]])

\* SIAQueryParams.from_dict
from_dict(data) == SIAQueryParams(data)

\* the field values of an instance, as keyword arguments (dataclasses.asdict
\* without to_dict's dropping of the None values)
asdict(self) ==
    [i \in DOMAIN SIAQueryParams_annotations |->
        Item(SIAQueryParams_annotations[i], self.f[SIAQueryParams_annotations[i]])]

(***************************************************************************)
(* The keyword arguments tried on SIAQueryParams: maxrec absent, None, 0   *)
(* or positive; responseformat absent or given; pos and collection absent  *)
(* or a list of strings.                                                   *)
(***************************************************************************)
V_a == StrV(<<"a">>)
V_b == StrV(<<"b">>)
V_5 == StrV(<<"5">>)
V_9 == StrV(<<"9">>)
V_blank == StrV(<<>>)
V_votable == StrV(<<"v","o","t","a","b","l","e">>)

StrLists == { ListV(xs) : xs \in SeqsOf({V_a, V_b}, 1, MaxValues) }
Absent == [t |-> "absent"]

KwargsOf(pos, collection, maxrec, responseformat) ==
    LET add(d, k, v) == IF v = Absent THEN d ELSE DictSet(d, k, v)
    IN add(add(add(add(<<>>, K_pos, pos), K_collection, collection),
               K_maxrec, maxrec), K_responseformat, responseformat)

(***************************************************************************)
(* sia/exceptions.py, sia/errors.py, sia/main.py: the faults and how an    *)
(* exception that leaves a route or one of its dependencies is answered.   *)
(***************************************************************************)
UsageFaultError(detail) == Raise("UsageFaultError", <<Lit("UsageFault: ")>> \o detail)
TransientFaultError(detail) == Raise("TransientFaultError", <<Lit("TransientFault: ")>> \o detail)
FatalFaultError(detail) == Raise("FatalFaultError", <<Lit("FatalFault: ")>> \o detail)
DefaultFaultError(detail) == Raise("DefaultFaultError", <<Lit("DefaultFault: ")>> \o detail)

\* isinstance(exc, VOTableError)
IsVOTableError(exc) ==
    exc.type \in {"VOTableError", "UsageFaultError", "TransientFaultError",
                  "FatalFaultError", "DefaultFaultError"}

\* sia.errors.votable_exception_handler: the VOTable error document
votable_exception_handler(exc) ==
    LET e == IF exc.type = "RequestValidationError" THEN UsageFaultError(exc.detail)
             ELSE IF ~IsVOTableError(exc) THEN DefaultFaultError(exc.detail)
             ELSE exc
    IN [status_code |-> 400, media_type |-> "application/xml",
        votable |-> TRUE, error_message |-> e.detail]

\* sia.main.configure_exception_handlers: the handler is registered for
\* VOTableError and RequestValidationError; an exception of another class
\* has no handler, and the server answers it with a plain 500
sia_exception_response(exc) ==
    IF IsVOTableError(exc) \/ exc.type = "RequestValidationError"
    THEN votable_exception_handler(exc)
    ELSE IF exc.type = "HTTPException"
    THEN [status_code |-> exc.status_code, media_type |-> "application/json",
          votable |-> FALSE, error_message |-> exc.detail]
    ELSE [status_code |-> 500, media_type |-> "text/plain",
          votable |-> FALSE, error_message |-> <<Lit("Internal Server Error")>>]

(***************************************************************************)
(* sia/middleware/ivoa.py: CaseInsensitiveFormMiddleware.  A form body is  *)
(* the sequence of its (key, value) fields; urlencode and the form parser  *)
(* that reads the body again carry such a sequence over unchanged.         *)
(***************************************************************************)
CT_json == "application/json"
CT_urlencoded == "application/x-www-form-urlencoded"
CT_multipart == "multipart/form-data"

\* urllib.parse.parse_qsl(body) with its default keep_blank_values=False:
\* a field whose value is blank is left out
parse_qsl(body) == SelectSeq(body, LAMBDA it : it.v # V_blank)

\* CaseInsensitiveFormMiddleware.process_form_data
process_form_data(body) ==
    LET parsed == parse_qsl(body)
    IN [i \in DOMAIN parsed |-> Item(lower(parsed[i].k), parsed[i].v)]

\* CaseInsensitiveFormMiddleware.is_form_data
is_form_data(content_type) == content_type = CT_urlencoded

\* CaseInsensitiveFormMiddleware.__call__ on a POST request
CaseInsensitiveFormMiddleware(content_type, body) ==
    IF is_form_data(content_type) THEN process_form_data(body) ELSE body

(***************************************************************************)
(* sia/dependencies/query_params.py: sia_post_params_dependency.           *)
(***************************************************************************)
SINGLE_PARAMS == {K_maxrec, K_responseformat}

\* params_dict[key] of the defaultdict(list): the list, empty when new
ListAt(params_dict, key) ==
    IF DictHas(params_dict, key) THEN DictGet(params_dict, key) ELSE <<>>

\* the loop over json_data.items()
RECURSIVE json_loop(_, _)
json_loop(items, params_dict) ==
    IF items = <<>> THEN Dict(params_dict)
    ELSE LET key == Head(items).k
             value == Head(items).v
             lower_key == lower(key)
             old == ListAt(params_dict, lower_key)
             new == IF value.t = "list"
                    THEN old \o [i \in DOMAIN value.v |-> PyStr(value.v[i])]
                    ELSE Append(old, PyStr(value))
         IN json_loop(Tail(items), DictSet(params_dict, lower_key, new))

\* the loop over form_data.multi_items(): the dict, or the TypeError
RECURSIVE form_loop(_, _)
form_loop(items, params_dict) ==
    IF items = <<>> THEN Dict(params_dict)
    ELSE LET key == Head(items).k
             value == Head(items).v
             lower_key == lower(key)
         IN IF value.t # "str"
            THEN Raise("TypeError", <<Lit("File upload not supported")>>)
            ELSE form_loop(Tail(items),
                           DictSet(params_dict, lower_key,
                                   Append(ListAt(params_dict, lower_key), value)))

\* a conversion that takes the last value of a single-valued key
M_convert_value(key, value) ==
    IF key \in SINGLE_PARAMS THEN value[Len(value)] ELSE ListV(value)

\* converted_params_dict[key]: value[0] for a single-valued key
convert_value(key, value) ==
    IF key \in SINGLE_PARAMS THEN value[1] ELSE ListV(value)

\* the loop that builds converted_params_dict: the dict, or the IndexError
\* of value[0] on an empty list
convert_loop(params_dict) ==
    IF \E i \in DOMAIN params_dict :
          params_dict[i].k \in SINGLE_PARAMS /\ params_dict[i].v = <<>>
    THEN Raise("IndexError", <<Lit("list index out of range")>>)
    ELSE Dict([i \in DOMAIN params_dict |->
             Item(params_dict[i].k, convert_value(params_dict[i].k, params_dict[i].v))])

\* sia_post_params_dependency, behind the middleware: what it has built when
\* it returns or raises
sia_post_params_dependency(content_type, body) ==
    LET received == CaseInsensitiveFormMiddleware(content_type, body)
        params_dict == IF content_type = CT_json
                       THEN json_loop(received, <<>>)
                       ELSE form_loop(received, <<>>)
        converted == IF IsExc(params_dict) THEN params_dict
                     ELSE convert_loop(params_dict.d)
        out == IF IsExc(converted) THEN converted ELSE from_dict(converted.d)
    IN [params_dict |-> params_dict, converted |-> converted, out |-> out]

(***************************************************************************)
(* vosiav2/models/siav2_query_params.py: the enum fields of                *)
(* SIAv2QueryParams and their validation.                                  *)
(***************************************************************************)
\* SIAv2QueryParams.validate_enum_list
validate_enum_list(value, enum_class, field_name) ==
    IF value = None THEN None
    ELSE LET items == IF value.t = "list" THEN value.v ELSE <<value>>
             made == [i \in DOMAIN items |->
                        IF items[i].t \in {"str", "int"}
                        THEN EnumCall(enum_class, items[i])
                        ELSE items[i]]
         IN IF \E i \in DOMAIN made : IsExc(made[i])
            THEN UsageFaultError(<<Lit("Validation of '"), Lit(field_name),
                                   Lit("' failed")>>)
            ELSE ListV(made)

\* SIAv2QueryParams.__post_init__: pol, dptype and calib are validated one
\* after the other, and the first exception ends the construction
SIAv2QueryParams__post_init__(self) ==
    LET pol == validate_enum_list(self.pol, Polarization, "pol")
        dptype == validate_enum_list(self.dptype, DPType, "dptype")
        calib == validate_enum_list(self.calib, CalibLevel, "calib")
    IN IF IsExc(pol) THEN pol
       ELSE IF IsExc(dptype) THEN dptype
       ELSE IF IsExc(calib) THEN calib
       ELSE [t |-> "SIAv2QueryParams", pol |-> pol, dptype |-> dptype, calib |-> calib]

(***************************************************************************)
(* sia/config.py, sia/services/data_collections.py: the configuration of   *)
(* package sia and the lookup of its data collections.                     *)
(***************************************************************************)
\* ButlerDataCollection(...)
ButlerDataCollection(label, name, repository, butler_type) ==
    [t |-> "ButlerDataCollection", label |-> label, name |-> name,
     repository |-> repository, butler_type |-> butler_type]

\* a Config whose validator accepts any list
M_Config(butler_data_collections) ==
    [t |-> "Config", butler_data_collections |-> butler_data_collections]

\* Config(butler_data_collections=...), with the model validator
\* _validate_butler_data_collections: the instance, or the FatalFaultError
Config(butler_data_collections) ==
    IF Len(butler_data_collections) = 0
    THEN FatalFaultError(<<Lit("No Data Collections configured"),
                           Lit(". Please configure at least one Data collection.")>>)
    ELSE [t |-> "Config", butler_data_collections |-> butler_data_collections]

\* str.capitalize()
capitalize(s) ==
    [i \in DOMAIN s |-> IF i = 1 THEN UpperChar(s[i]) ELSE LowerChar(s[i])]

\* the first element of a sequence among those at the indices hits
First(seq, hits) == seq[CHOOSE i \in hits : \A j \in hits : i <= j]

\* DataCollectionService._get_data_collection
_get_data_collection(cfg, key, value, attribute) ==
    LET hits == { i \in DOMAIN cfg.butler_data_collections :
                    upper(cfg.butler_data_collections[i][attribute].v) = upper(value.v) }
    IN IF ~Truthy(value)
       THEN Raise("ValueError", <<StrV(capitalize(key)), Lit(" is required.")>>)
       ELSE IF hits # {}
            THEN First(cfg.butler_data_collections, hits)
            ELSE Raise("KeyError", <<StrV(capitalize(key)), Lit(" "), value,
                                     Lit(" not found in Data collections.")>>)

K_label == <<"l","a","b","e","l">>
K_name == <<"n","a","m","e">>

\* DataCollectionService.get_data_collection_by_label
get_data_collection_by_label(cfg, label) ==
    _get_data_collection(cfg, K_label, label, "label")

\* DataCollectionService.get_data_collection_by_name
get_data_collection_by_name(cfg, name) ==
    _get_data_collection(cfg, K_name, name, "name")

\* HTTPException(status_code=..., detail=...)
HTTPException(status_code, detail) ==
    [t |-> "exc", type |-> "HTTPException", detail |-> detail,
     status_code |-> status_code]

\* sia.dependencies.data_collections.validate_collection
validate_collection(cfg, collection_name) ==
    LET found == get_data_collection_by_name(cfg, collection_name)
    IN IF IsExc(found) /\ found.type = "KeyError"
       THEN HTTPException(404, <<Lit("Collection '"), collection_name,
                                 Lit("' not found")>>)
       ELSE found

\* the loop of a get_data_repositories that does not test the label
RECURSIVE M_sia_repositories_loop(_, _)
M_sia_repositories_loop(collections, butler_repos) ==
    IF collections = <<>> THEN butler_repos
    ELSE LET label == Head(collections).label
             repository == Head(collections).repository
         IN M_sia_repositories_loop(Tail(collections),
                IF Truthy(repository)
                THEN DictSet(butler_repos, label, PyStr(repository))
                ELSE butler_repos)

\* the loop of DataCollectionService.get_data_repositories
RECURSIVE sia_repositories_loop(_, _)
sia_repositories_loop(collections, butler_repos) ==
    IF collections = <<>> THEN butler_repos
    ELSE LET label == Head(collections).label
             repository == Head(collections).repository
         IN sia_repositories_loop(Tail(collections),
                IF Truthy(label) /\ Truthy(repository)
                THEN DictSet(butler_repos, label, PyStr(repository))
                ELSE butler_repos)

\* a get_data_repositories that does not test the label
M_DataCollectionService_get_data_repositories(cfg) ==
    Dict(M_sia_repositories_loop(cfg.butler_data_collections, <<>>))

\* DataCollectionService.get_data_repositories
DataCollectionService_get_data_repositories(cfg) ==
    Dict(sia_repositories_loop(cfg.butler_data_collections, <<>>))

(***************************************************************************)
(* vosiav2/config.py, vosiav2/services/config_reader.py: the configuration *)
(* of package vosiav2 and the lookup of its data collections.              *)
(***************************************************************************)
\* DataCollection(...)
DataCollection(label, repository, default) ==
    [t |-> "DataCollection", label |-> label, repository |-> repository,
     default |-> default]

\* vosiav2 Config(data_collections=...): no validator, any list is accepted
V2Config(data_collections) ==
    [t |-> "Config", data_collections |-> data_collections]

\* a get_data_collection without the check for an empty configuration
M_get_data_collection(label, cfg) ==
    LET hits == { i \in DOMAIN cfg.data_collections :
                    cfg.data_collections[i].label = label }
    IN IF ~Truthy(label)
       THEN IF Len(cfg.data_collections) = 0
            THEN Raise("IndexError", <<Lit("list index out of range")>>)
            ELSE cfg.data_collections[1]
       ELSE IF hits # {}
            THEN First(cfg.data_collections, hits)
            ELSE UsageFaultError(<<Lit("Label {label} not found in Data collections.")>>)

\* config_reader.get_data_collection
get_data_collection(label, cfg) ==
    LET hits == { i \in DOMAIN cfg.data_collections :
                    cfg.data_collections[i].label = label }
    IN IF ~Truthy(label)
       THEN IF Len(cfg.data_collections) = 0
            THEN FatalFaultError(<<Lit("No Data Collections configured"),
                                   Lit(". Please configure at least one Data collection.")>>)
            ELSE cfg.data_collections[1]
       ELSE IF hits # {}
            THEN First(cfg.data_collections, hits)
            ELSE UsageFaultError(<<Lit("Label {label} not found in Data collections.")>>)

\* the loop of config_reader.get_data_repositories
RECURSIVE repositories_loop(_, _)
repositories_loop(collections, butler_repos) ==
    IF collections = <<>> THEN butler_repos
    ELSE LET label == Head(collections).label
             repository == Head(collections).repository
         IN repositories_loop(Tail(collections),
                IF Truthy(label) /\ Truthy(repository)
                THEN DictSet(butler_repos, label, repository)
                ELSE butler_repos)

\* config_reader.get_data_repositories
get_data_repositories(cfg) == Dict(repositories_loop(cfg.data_collections, <<>>))

(***************************************************************************)
(* Operations.  The functions of the service are pure or read only the     *)
(* configuration, so a behaviour is one call: `call` is the call made,     *)
(* drawn from the calls below in the initial state, and `last` records     *)
(* what has been performed of it and what came of it.                      *)
(***************************************************************************)
Idle == [op |-> "start"]

EnumCalls ==
    { [op |-> "enum", enum |-> E, value |-> StrV(s)] :
        E \in CaseInsensitiveEnums, s \in UNION { EnumInputs(F) : F \in CaseInsensitiveEnums } }

SIAQueryParamsCalls ==
    { [op |-> "SIAQueryParams",
       data |-> KwargsOf(pos, collection, maxrec, responseformat)] :
        pos \in {Absent} \cup StrLists,
        collection \in {Absent, None, ListV(<<V_a>>)},
        maxrec \in {Absent, None} \cup { IntV(n) : n \in 0..MaxRec },
        responseformat \in {Absent, V_votable} }

\* the enum fields given to SIAv2QueryParams: unset, valid, invalid, mixed,
\* and a value that is no list
SIAv2QueryParamsCalls ==
    { [op |-> "SIAv2QueryParams", pol |-> pol, dptype |-> dptype, calib |-> calib] :
        pol \in {None, StrV(<<"q">>), ListV(<<StrV(<<"I">>)>>), ListV(<<StrV(<<"z","z">>)>>),
                 ListV(<<StrV(<<"x","y">>), StrV(<<"z","z">>)>>)},
        dptype \in {None, ListV(<<StrV(<<"i","m","a","g","e">>)>>),
                    ListV(<<StrV(<<"v","i","d","e","o">>)>>)},
        calib \in {None, ListV(<<IntV(0), IntV(3)>>), ListV(<<IntV(7)>>),
                   ListV(<<StrV(<<"1">>)>>)} }

InitParams ==
    /\ call \in EnumCalls \cup SIAQueryParamsCalls \cup SIAv2QueryParamsCalls
    /\ last = Idle
    /\ config = None
    /\ v2config = None

\* E(value) for a case-insensitive enum E
ResolveEnum ==
    /\ call.op = "enum" /\ last = Idle
    /\ last' = [op |-> "enum", out |-> EnumCall(call.enum, call.value)]
    /\ UNCHANGED <<call, config, v2config>>

\* SIAQueryParams(...) called with keyword arguments
ConstructSIAQueryParams ==
    /\ call.op = "SIAQueryParams" /\ last = Idle
    /\ last' = [op |-> "SIAQueryParams", out |-> SIAQueryParams(call.data)]
    /\ UNCHANGED <<call, config, v2config>>

\* SIAv2QueryParams(...) called with values for its enum fields
ConstructSIAv2QueryParams ==
    /\ call.op = "SIAv2QueryParams" /\ last = Idle
    /\ last' = [op |-> "SIAv2QueryParams",
                out |-> SIAv2QueryParams__post_init__(call)]
    /\ UNCHANGED <<call, config, v2config>>

NextParams ==
    \/ ResolveEnum
    \/ ConstructSIAQueryParams
    \/ ConstructSIAv2QueryParams

SpecParams == InitParams /\ [][NextParams]_vars

\* C1: an SIAQueryParams constructed with every field other than maxrec and
\* responseformat unset has maxrec == 0, whatever maxrec was supplied, and
\* constructing again from its field values gives the same instance.
C1_EmptyQueryForcesMaxrecZero ==
    (/\ last.op = "SIAQueryParams"
     /\ \A i \in DOMAIN call.data :
           call.data[i].k \in {K_maxrec, K_responseformat} \/ call.data[i].v = None)
    => /\ last.out.t = "SIAQueryParams"
       /\ last.out.f[K_maxrec] = IntV(0)
       /\ SIAQueryParams(asdict(last.out)) = last.out

\* an empty query that supplied a positive maxrec has been constructed
C1_Witness ==
    /\ last.op = "SIAQueryParams"
    /\ DictHas(call.data, K_maxrec)
    /\ DictGet(call.data, K_maxrec) = IntV(MaxRec)
    /\ ~DictHas(call.data, K_pos)
    /\ ~DictHas(call.data, K_collection)
    /\ last.out.t = "SIAQueryParams"

\* whether the message of an exception has the piece x in it
Names(exc, x) == \E i \in DOMAIN exc.detail : exc.detail[i] = x

\* C4: E(s) succeeds iff some member's value equals s when the case of the
\* letters is ignored, and then returns that member; otherwise it fails with
\* an error that names the enum and the offending value.
C4_EnumResolvesIgnoringCase ==
    last.op = "enum" =>
        LET E == call.enum
            hits == { i \in DOMAIN E.members :
                        lower(E.members[i].value.v) = lower(call.value.v) }
        IN IF hits # {}
           THEN \A i \in hits : last.out = Member(E.name, E.members[i].name)
           ELSE /\ IsExc(last.out)
                /\ last.out.type = "ValueError"
                /\ Names(last.out, call.value)
                /\ Names(last.out, Lit(E.name))

\* a member's value spelled in the other case than the enum spells it has
\* been resolved to that member
C4_Witness ==
    /\ last.op = "enum"
    /\ \E i \in DOMAIN call.enum.members :
          /\ call.value.v # call.enum.members[i].value.v
          /\ call.value.v \in {lower(call.enum.members[i].value.v),
                               upper(call.enum.members[i].value.v)}
          /\ last.out = Member(call.enum.name, call.enum.members[i].name)

(***************************************************************************)
(* POST /query: the request bodies tried.  A JSON body is the sequence of  *)
(* the members of its object, the keys pairwise different; its values are  *)
(* scalars or lists of scalars.  A form body is any sequence of fields; a  *)
(* multipart body may hold an uploaded file.                               *)
(***************************************************************************)
K_foo == <<"f","o","o">>

FormKeys == {K_pos, upper(K_pos), K_maxrec, upper(K_maxrec),
             upper(K_responseformat), K_foo}
FormFields == { Item(k, v) : k \in FormKeys, v \in {V_5, V_9, V_blank} }
FormBodies == SeqsOf(FormFields, 0, MaxItems)
MultipartBodies ==
    SeqsOf(FormFields \cup {Item(upper(K_pos), UploadFile)}, 0, MaxItems)

JsonKeys == {K_pos, upper(K_pos), K_maxrec, K_foo}
JsonScalars == {IntV(5), V_9}
JsonValues == JsonScalars \cup { ListV(xs) : xs \in SeqsOf(JsonScalars, 0, MaxValues) }
JsonKeySeqs ==
    { ks \in SeqsOf(JsonKeys, 0, MaxItems) :
        \A i, j \in DOMAIN ks : i # j => ks[i] # ks[j] }
\* the body made of the keys ks and the values vs, in this order
JsonBody(ks, vs) == [i \in DOMAIN ks |-> Item(ks[i], vs[i])]

PostCall(content_type, body) ==
    [op |-> "query_post", content_type |-> content_type, body |-> body]

InitPost ==
    /\ \/ \E ks \in JsonKeySeqs : \E vs \in [DOMAIN ks -> JsonValues] :
              call = PostCall(CT_json, JsonBody(ks, vs))
       \/ \E b \in FormBodies : call = PostCall(CT_urlencoded, b)
       \/ \E b \in MultipartBodies : call = PostCall(CT_multipart, b)
    /\ last = Idle
    /\ config = None
    /\ v2config = None

\* POST /query up to the resolution of its params dependency: the model
\* handed to the route, or the response to the exception raised
PostParams ==
    /\ call.op = "query_post" /\ last = Idle
    /\ LET r == sia_post_params_dependency(call.content_type, call.body)
       IN last' = [op |-> "query_post",
                   params_dict |-> r.params_dict,
                   converted |-> r.converted,
                   out |-> r.out,
                   response |-> IF IsExc(r.out) THEN sia_exception_response(r.out)
                                ELSE None]
    /\ UNCHANGED <<call, config, v2config>>

NextPost == PostParams

SpecPost == InitPost /\ [][NextPost]_vars

\* the values a body supplies under the keys that lower to k, in arrival
\* order, a JSON scalar counting as the one-element list of its string form
RECURSIVE SuppliedUnder(_, _)
SuppliedUnder(body, k) ==
    IF body = <<>> THEN <<>>
    ELSE LET key == Head(body).k
             value == Head(body).v
             here == IF lower(key) # k THEN <<>>
                     ELSE IF value.t = "list"
                          THEN [i \in DOMAIN value.v |-> PyStr(value.v[i])]
                          ELSE <<PyStr(value)>>
         IN here \o SuppliedUnder(Tail(body), k)

LowerKeysOf(body) == { lower(body[i].k) : i \in DOMAIN body }

\* int(s) of a string: the number a one-digit string spells
PyInt(x) ==
    IF \E i \in DOMAIN Digits : <<Digits[i]>> = x.v
    THEN IntV((CHOOSE i \in DOMAIN Digits : <<Digits[i]>> = x.v) - 1)
    ELSE Raise("ValueError", <<Lit("invalid literal for int() with base 10: "), x>>)

C3_KeysLoweredValuesMerged ==
    (last.op = "query_post" /\ last.params_dict.t = "dict") =>
        LET d == last.params_dict.d
        IN /\ \A i \in DOMAIN d : d[i].k = lower(d[i].k)
           /\ \A i, j \in DOMAIN d : i # j => d[i].k # d[j].k
           /\ DictKeys(d) = LowerKeysOf(call.body)
           /\ \A i \in DOMAIN d : d[i].v = SuppliedUnder(call.body, d[i].k)

\* C5: a POST body with a key that is no SIA parameter (one that reaches the
\* normalizer's dict) is answered with a UsageFault VOTable error, status 400.
C5_UnknownKeyIsUsageFault ==
    (/\ last.op = "query_post"
     /\ last.params_dict.t = "dict"
     /\ \E k \in DictKeys(last.params_dict.d) : k \notin SIAQueryParams_fields)
    => /\ last.response # None
       /\ last.response.status_code = 400
       /\ last.response.votable
       /\ last.response.error_message[1] = Lit("UsageFault: ")

\* the items of a field's value that its enum does not accept
Offending(value, E) ==
    IF value = None THEN {}
    ELSE LET items == IF value.t = "list" THEN value.v ELSE <<value>>
         IN { i \in DOMAIN items : IsExc(EnumCall(E, items[i])) }

OffendingFields(c) ==
    { f \in {"pol", "dptype", "calib"} :
        Offending(c[f], CASE f = "pol" -> Polarization
                          [] f = "dptype" -> DPType
                          [] f = "calib" -> CalibLevel) # {} }

\* C6: construction with invalid values in several of pol, dptype and calib
\* raises one UsageFault that lists every offending field.
C6_UsageFaultListsEveryField ==
    (last.op = "SIAv2QueryParams" /\ OffendingFields(call) # {}) =>
        /\ IsExc(last.out)
        /\ last.out.type = "UsageFaultError"
        /\ \A f \in OffendingFields(call) : Names(last.out, Lit(f))

(***************************************************************************)
(* The registry: a configuration is constructed from a list of data        *)
(* collections, and a collection is then looked up in it.                  *)
(***************************************************************************)
LSST_DP02 == <<"L","S","S","T",".","D","P","0","2">>
V_dp02 == StrV(<<"d","p","0","2">>)
V_DP02 == StrV(<<"D","P","0","2">>)
V_repo == StrV(<<"h","t","t","p","s",":","/","/","r","e","p","o">>)
V_repo2 == StrV(<<"/","r","e","p","o","2">>)

LookupValues == {StrV(LSST_DP02), StrV(lower(LSST_DP02)), V_dp02, V_blank}

ButlerDataCollections ==
    { ButlerDataCollection(label, name, repository, "REMOTE") :
        label \in {StrV(LSST_DP02), StrV(lower(LSST_DP02)), V_blank},
        name \in {V_dp02, V_DP02},
        repository \in {HttpUrl(V_repo.v), Path(V_repo2.v)} }

DataCollections ==
    { DataCollection(label, repository, default) :
        label \in {StrV(LSST_DP02), StrV(lower(LSST_DP02)), None},
        repository \in {V_repo, V_repo2, None},
        default \in BOOLEAN }

RegistryCalls ==
    { [op |-> "sia_registry", collections |-> cs, attribute |-> a, value |-> v] :
        cs \in SeqsOf(ButlerDataCollections, 0, MaxCollections),
        a \in {"label", "name"}, v \in LookupValues }
    \cup { [op |-> "vosiav2_registry", collections |-> cs, label |-> l] :
             cs \in SeqsOf(DataCollections, 0, MaxCollections),
             l \in LookupValues \cup {None} }

InitRegistry ==
    /\ call \in RegistryCalls
    /\ last = Idle
    /\ config = None
    /\ v2config = None

\* sia.config: config = Config()
SiaConfigure ==
    /\ call.op = "sia_registry" /\ last = Idle /\ config = None
    /\ LET made == Config(call.collections)
       IN /\ last' = [op |-> "sia.Config", out |-> made]
          /\ config' = IF IsExc(made) THEN None ELSE made
    /\ UNCHANGED <<call, v2config>>

\* DataCollectionService(config).get_data_collection_by_label / _by_name
SiaLookup ==
    /\ call.op = "sia_registry" /\ last.op = "sia.Config" /\ config # None
    /\ last' = [op |-> "sia.lookup",
                out |-> IF call.attribute = "label"
                        THEN get_data_collection_by_label(config, call.value)
                        ELSE get_data_collection_by_name(config, call.value)]
    /\ UNCHANGED <<call, config, v2config>>

\* a route of package sia whose path names the collection: the dependency
\* validate_collection(collection_name), and the answer to what it raises
SiaValidateCollection ==
    /\ call.op = "sia_registry" /\ call.attribute = "name"
    /\ last.op = "sia.Config" /\ config # None
    /\ LET found == validate_collection(config, call.value)
       IN last' = [op |-> "sia.validate_collection", out |-> found,
                   response |-> IF IsExc(found) THEN sia_exception_response(found)
                                ELSE None]
    /\ UNCHANGED <<call, config, v2config>>

\* vosiav2.config: config = Config()
V2Configure ==
    /\ call.op = "vosiav2_registry" /\ last = Idle /\ v2config = None
    /\ v2config' = V2Config(call.collections)
    /\ last' = [op |-> "vosiav2.Config", out |-> v2config']
    /\ UNCHANGED <<call, config>>

\* config_reader.get_data_collection(label, config)
V2Lookup ==
    /\ call.op = "vosiav2_registry" /\ last.op = "vosiav2.Config" /\ v2config # None
    /\ last' = [op |-> "vosiav2.lookup",
                out |-> get_data_collection(call.label, v2config)]
    /\ UNCHANGED <<call, config, v2config>>

\* DataCollectionService(config).get_data_repositories()
SiaRepositories ==
    /\ call.op = "sia_registry" /\ last.op = "sia.Config" /\ config # None
    /\ last' = [op |-> "sia.repositories",
                out |-> DataCollectionService_get_data_repositories(config)]
    /\ UNCHANGED <<call, config, v2config>>

\* config_reader: data_repositories = get_data_repositories(config=app_config)
V2Repositories ==
    /\ call.op = "vosiav2_registry" /\ last.op = "vosiav2.Config" /\ v2config # None
    /\ last' = [op |-> "vosiav2.repositories", out |-> get_data_repositories(v2config)]
    /\ UNCHANGED <<call, config, v2config>>

NextRegistry ==
    \/ SiaConfigure
    \/ SiaLookup
    \/ SiaRepositories
    \/ SiaValidateCollection
    \/ V2Configure
    \/ V2Lookup
    \/ V2Repositories

SpecRegistry == InitRegistry /\ [][NextRegistry]_vars

\* C7: lookup of a data collection by label is a case-sensitive exact match:
\* it returns a collection labelled exactly as asked, and fails with a
\* UsageFault or not-found error when no collection is labelled so.
C7_LabelLookupIsCaseSensitive ==
    /\ (last.op = "sia.lookup" /\ call.attribute = "label" /\ Truthy(call.value)) =>
          IF \E i \in DOMAIN call.collections : call.collections[i].label = call.value
          THEN ~IsExc(last.out) /\ last.out.label = call.value
          ELSE IsExc(last.out) /\ last.out.type \in {"UsageFaultError", "KeyError"}
    /\ (last.op = "vosiav2.lookup" /\ Truthy(call.label)) =>
          IF \E i \in DOMAIN call.collections : call.collections[i].label = call.label
          THEN ~IsExc(last.out) /\ last.out.label = call.label
          ELSE IsExc(last.out) /\ last.out.type \in {"UsageFaultError", "KeyError"}

\* C8: when no collection is named, the lookup returns the first collection,
\* in configuration order, that is marked default.
C8_DefaultIsFirstMarkedDefault ==
    (/\ last.op = "vosiav2.lookup"
     /\ ~Truthy(call.label)
     /\ \E i \in DOMAIN call.collections : call.collections[i].default)
    => last.out = First(call.collections,
                        { i \in DOMAIN call.collections : call.collections[i].default })

\* C9: with zero configured collections, asking for the default collection
\* raises a FatalFault whose message has "No Data Collections configured".
C9_EmptyRegistryDefaultIsFatalFault ==
    (/\ last.op = "vosiav2.lookup"
     /\ ~Truthy(call.label)
     /\ call.collections = <<>>)
    => /\ IsExc(last.out)
       /\ last.out.type = "FatalFaultError"
       /\ last.out.detail[1] = Lit("FatalFault: ")
       /\ Names(last.out, Lit("No Data Collections configured"))

\* the default collection has been asked of a configuration without any
C9_Witness ==
    /\ last.op = "vosiav2.lookup"
    /\ call.label = None
    /\ v2config.data_collections = <<>>
    /\ IsExc(last.out)

\* C10, as stated: constructing the configuration with an empty list of data
\* collections fails with a FatalFault, and no configuration with zero
\* collections exists.
C10_NoEmptyConfigExists ==
    /\ (last.op \in {"sia.Config", "vosiav2.Config"} /\ call.collections = <<>>) =>
          IsExc(last.out) /\ last.out.type = "FatalFaultError"
    /\ config # None => Len(config.butler_data_collections) > 0
    /\ v2config # None => Len(v2config.data_collections) > 0

\* C10, amended: constructing the Config of package sia with an empty list
\* fails with the FatalFault and leaves no configuration, so that a sia
\* configuration never has zero collections; the Config of package vosiav2
\* accepts whatever list it is given.
C10_SiaConfigRejectsEmptyList ==
    /\ (last.op = "sia.Config" /\ call.collections = <<>>) =>
          /\ IsExc(last.out)
          /\ last.out.type = "FatalFaultError"
          /\ Names(last.out, Lit("No Data Collections configured"))
          /\ config = None
    /\ config # None => Len(config.butler_data_collections) > 0
    /\ last.op = "vosiav2.Config" =>
          v2config # None /\ v2config.data_collections = call.collections

\* the construction of a sia Config from an empty list has been tried
C10_Witness ==
    /\ last.op = "sia.Config"
    /\ call.collections = <<>>
    /\ IsExc(last.out)

(***************************************************************************)
(* sia/factory.py, vosiav2/factories/query_engine_factory.py: the          *)
(* construction of the engine (the Butler) that a query runs on.  The      *)
(* Butler library is outside the repository: a Butler is the record of     *)
(* what it was made from, LabeledButlerFactory.create_butler raises        *)
(* KeyError for a label it has no repository for.                          *)
(***************************************************************************)
DIRECT == "DIRECT"
REMOTE == "REMOTE"

\* ProcessContext: the Config's butler_type and the LabeledButlerFactory
ProcessContext(butler_type, labeled_butler_factory) ==
    [t |-> "ProcessContext", butler_type |-> butler_type,
     labeled_butler_factory |-> labeled_butler_factory]

\* LabeledButlerFactory(repositories)
LabeledButlerFactory(repositories) ==
    [t |-> "LabeledButlerFactory", repositories |-> repositories]

\* LabeledButlerFactory.create_butler(label=..., access_token=...)
LabeledButlerFactory_create_butler(factory, label, access_token) ==
    IF DictHas(factory.repositories.d, label)
    THEN [t |-> "Butler", kind |-> REMOTE, label |-> label,
          repository |-> DictGet(factory.repositories.d, label),
          access_token |-> access_token, defaults |-> None]
    ELSE Raise("KeyError", <<Lit("Unknown butler label "), label>>)

\* Butler.from_config(repository, writeable=False)
Butler_from_config(repository) ==
    [t |-> "Butler", kind |-> DIRECT, label |-> None, repository |-> repository,
     access_token |-> None, defaults |-> None]

\* a create_butler that does not require the token
M_create_butler(process_context, config_path, butler_collection, token) ==
    IF ~Truthy(config_path)
    THEN Raise("ValueError",
               <<Lit("No Butler configuration file configured"), Lit(" <butler_config>")>>)
    ELSE IF process_context.butler_type = DIRECT
    THEN IF ~Truthy(butler_collection.repository)
         THEN Raise("ValueError",
                    <<Lit("No Butler repository configured"), Lit(" <butler_repo>")>>)
         ELSE Butler_from_config(PyStr(butler_collection.repository))
    ELSE IF ~Truthy(butler_collection.label)
    THEN FatalFaultError(<<Lit("No Butler label configured"), Lit(" <label>")>>)
    ELSE IF ~Truthy(process_context.labeled_butler_factory)
    THEN FatalFaultError(<<Lit("No LabeledButlerFactory configured")>>)
    ELSE LET butler == LabeledButlerFactory_create_butler(
                           process_context.labeled_butler_factory,
                           butler_collection.label, token)
         IN IF IsExc(butler) THEN butler
            ELSE [butler EXCEPT !.defaults = butler_collection.defaultinstrument]

\* Factory.create_butler
create_butler(process_context, config_path, butler_collection, token) ==
    IF ~Truthy(config_path)
    THEN Raise("ValueError",
               <<Lit("No Butler configuration file configured"), Lit(" <butler_config>")>>)
    ELSE IF process_context.butler_type = DIRECT
    THEN IF ~Truthy(butler_collection.repository)
         THEN Raise("ValueError",
                    <<Lit("No Butler repository configured"), Lit(" <butler_repo>")>>)
         ELSE Butler_from_config(PyStr(butler_collection.repository))
    ELSE IF ~Truthy(butler_collection.label)
    THEN FatalFaultError(<<Lit("No Butler label configured"), Lit(" <label>")>>)
    ELSE IF ~Truthy(token)
    THEN FatalFaultError(<<Lit("Token is required"),
                           Lit(" for RemoteButlerQueryEngine")>>)
    ELSE IF ~Truthy(process_context.labeled_butler_factory)
    THEN FatalFaultError(<<Lit("No LabeledButlerFactory configured")>>)
    ELSE LET butler == LabeledButlerFactory_create_butler(
                           process_context.labeled_butler_factory,
                           butler_collection.label, token)
         IN IF IsExc(butler) THEN butler
            ELSE [butler EXCEPT !.defaults = butler_collection.defaultinstrument]

\* kwargs.get(key)
kwargs_get(kwargs, key) == IF DictHas(kwargs, key) THEN DictGet(kwargs, key) ELSE None

K_token == <<"t","o","k","e","n">>
K_config == <<"c","o","n","f","i","g">>
K_repository == <<"r","e","p","o","s","i","t","o","r","y">>

\* QueryEngineFactory._create_direct_butler
_create_direct_butler(kwargs) ==
    LET butler_repo == kwargs_get(kwargs, K_repository)
        butler_config == kwargs_get(kwargs, K_config)
    IN IF ~Truthy(butler_repo)
       THEN Raise("ValueError",
                  <<Lit("No Butler repository configured"), Lit(" <butler_repo>")>>)
       ELSE IF ~Truthy(butler_config)
       THEN Raise("ValueError",
                  <<Lit("No Butler configuration file configured"),
                    Lit(" <butler_config>")>>)
       ELSE [t |-> "DirectButlerQueryEngine", config |-> butler_config,
             butler |-> Butler_from_config(butler_repo), repo |-> butler_repo]

\* QueryEngineFactory._create_remote_butler; data_repositories is the map
\* that config_reader holds
_create_remote_butler(kwargs, data_repositories) ==
    LET token == kwargs_get(kwargs, K_token)
        butler_label == kwargs_get(kwargs, K_label)
        butler_config == kwargs_get(kwargs, K_config)
        butler == LabeledButlerFactory_create_butler(
                      LabeledButlerFactory(data_repositories), butler_label, token)
    IN IF ~Truthy(butler_label)
       THEN FatalFaultError(<<Lit("No Butler label configured"), Lit(" <label>")>>)
       ELSE IF ~Truthy(token)
       THEN FatalFaultError(<<Lit("Token is required"),
                              Lit(" for RemoteButlerQueryEngine")>>)
       ELSE IF ~Truthy(butler_config)
       THEN FatalFaultError(<<Lit("No Butler configuration file configured"),
                              Lit(" <butler_config>")>>)
       ELSE IF IsExc(butler) THEN butler
       ELSE [t |-> "RemoteButlerQueryEngine", config |-> butler_config,
             butler |-> [butler EXCEPT !.defaults = Lit("LSSTCam-imSim")],
             label |-> butler_label, token |-> token]

DIRECT_BUTLER == "DIRECT_BUTLER"
REMOTE_BUTLER == "REMOTE_BUTLER"

\* QueryEngineFactory.create_query_engine
create_query_engine(query_engine, kwargs, data_repositories) ==
    CASE query_engine = DIRECT_BUTLER -> _create_direct_butler(kwargs)
      [] query_engine = REMOTE_BUTLER -> _create_remote_butler(kwargs, data_repositories)
      [] OTHER -> Raise("ValueError", <<Lit("Unsupported engine type: "), Lit(query_engine)>>)

\* vosiav2.exceptions.handle_exceptions: what the wrapper raises for the
\* exception that the wrapped function raised
handle_exceptions(exc) ==
    IF exc.type \in {"UsageFaultError", "TransientFaultError",
                     "FatalFaultError", "DefaultFaultError"}
    THEN exc
    ELSE IF exc.type \in {"ValueError", "RequestValidationError"}
    THEN UsageFaultError(exc.detail)
    ELSE DefaultFaultError(exc.detail)

(***************************************************************************)
(* Engine construction: the calls tried.                                   *)
(***************************************************************************)
V_token == StrV(<<"t","o","k">>)
V_config == StrV(<<"d","p","0","2",".","y","a","m","l">>)
V_instrument == StrV(<<"H","S","C">>)

\* the collection handed to create_butler, with the default instrument that
\* create_butler reads from it
EngineCollections ==
    { [t |-> "ButlerDataCollection", label |-> label, name |-> V_dp02,
       repository |-> repository, butler_type |-> REMOTE,
       defaultinstrument |-> V_instrument] :
        label \in {StrV(LSST_DP02), V_blank},
        repository \in {HttpUrl(V_repo.v), None} }

LabeledButlerFactories ==
    {None, LabeledButlerFactory(Dict(<<>>)),
     LabeledButlerFactory(Dict(<<Item(StrV(LSST_DP02), V_repo)>>))}

EngineKwargs ==
    { token \o label \o cfg \o repository :
        token \in {<<>>, <<Item(K_token, None)>>, <<Item(K_token, V_token)>>},
        label \in {<<>>, <<Item(K_label, V_blank)>>, <<Item(K_label, StrV(LSST_DP02))>>},
        cfg \in {<<>>, <<Item(K_config, V_config)>>},
        repository \in {<<>>, <<Item(K_repository, V_repo)>>} }

EngineCalls ==
    { [op |-> "create_butler", process_context |-> ProcessContext(bt, f),
       config_path |-> cp, butler_collection |-> c, token |-> tk] :
        bt \in {DIRECT, REMOTE}, f \in LabeledButlerFactories,
        cp \in {V_blank, V_config}, c \in EngineCollections,
        tk \in {None, V_blank, V_token} }
    \cup { [op |-> "create_query_engine", query_engine |-> qe, kwargs |-> kw,
            data_repositories |-> r] :
             qe \in {DIRECT_BUTLER, REMOTE_BUTLER}, kw \in EngineKwargs,
             r \in {Dict(<<>>), Dict(<<Item(StrV(LSST_DP02), V_repo)>>)} }

InitEngine ==
    /\ call \in EngineCalls
    /\ last = Idle
    /\ config = None
    /\ v2config = None

\* Factory(process_context).create_butler(...)
CreateButler ==
    /\ call.op = "create_butler" /\ last = Idle
    /\ last' = [op |-> "create_butler",
                out |-> create_butler(call.process_context, call.config_path,
                                      call.butler_collection, call.token)]
    /\ UNCHANGED <<call, config, v2config>>

\* QueryEngineFactory(config).create_query_engine(**kwargs)
CreateQueryEngine ==
    /\ call.op = "create_query_engine" /\ last = Idle
    /\ last' = [op |-> "create_query_engine",
                out |-> create_query_engine(call.query_engine, call.kwargs,
                                            call.data_repositories)]
    /\ UNCHANGED <<call, config, v2config>>

NextEngine ==
    \/ CreateButler
    \/ CreateQueryEngine

SpecEngine == InitEngine /\ [][NextEngine]_vars

\* whether x is a raised FatalFaultError whose message has the text in it
IsFatalFault(x, text) ==
    /\ IsExc(x)
    /\ x.type = "FatalFaultError"
    /\ x.detail[1] = Lit("FatalFault: ")
    /\ Names(x, Lit(text))

C13_MissingConfigurationIsFatalFault ==
    /\ (/\ last.op = "create_butler"
        /\ \/ ~Truthy(call.config_path)
           \/ /\ call.process_context.butler_type = DIRECT
              /\ ~Truthy(call.butler_collection.repository)) =>
          /\ IsExc(last.out)
          /\ last.out.type = "FatalFaultError"
    /\ (/\ last.op = "create_query_engine"
        /\ call.query_engine = DIRECT_BUTLER
        /\ \/ ~Truthy(kwargs_get(call.kwargs, K_repository))
           \/ ~Truthy(kwargs_get(call.kwargs, K_config))) =>
          /\ IsExc(last.out)
          /\ last.out.type = "FatalFaultError"
          /\ handle_exceptions(last.out).type = "FatalFaultError"

\* C11: the map of repositories has an entry under the label of a configured
\* collection iff the label and the repository of the collection are both
\* non-empty, no label twice, and every value is the repository (its text)
\* of a configured collection with that label.
C11_RepositoryMapHoldsLabelledRepositories ==
    last.op \in {"sia.repositories", "vosiav2.repositories"} =>
        LET cs == call.collections
            d == last.out.d
            Bound(i) == Truthy(cs[i].label) /\ Truthy(cs[i].repository)
            Text(r) == IF last.op = "sia.repositories" THEN PyStr(r) ELSE r
        IN /\ \A i \in DOMAIN cs : Bound(i) => DictHas(d, cs[i].label)
           /\ \A j \in DOMAIN d :
                 \E i \in DOMAIN cs : /\ Bound(i)
                                       /\ cs[i].label = d[j].k
                                       /\ d[j].v = Text(cs[i].repository)
           /\ \A j, k \in DOMAIN d : j # k => d[j].k # d[k].k

\* the map has been built from a configuration that has a collection with
\* label and repository and one that lacks a label
C11_Witness ==
    /\ last.op \in {"sia.repositories", "vosiav2.repositories"}
    /\ Len(last.out.d) = 1
    /\ \E i \in DOMAIN call.collections : ~Truthy(call.collections[i].label)

(***************************************************************************)
(* sia/services/query_processor.py, vosiav2/handlers/external.py,          *)
(* sia/services/response_handler.py: the processing of one query.  The     *)
(* libraries lsst.dax.obscore and astropy are outside the repository: what *)
(* SIAv2Parameters.from_siav2 makes of the parameters (the parameter       *)
(* object, or a ValueError for a value it cannot parse) and what the       *)
(* backend query returns (a table, or an exception) are given with the     *)
(* call.  process_query reads the configuration of the version of the      *)
(* package it was written for: the field query_engine, and in the handler  *)
(* of vosiav2 the field default_collection_label.                          *)
(***************************************************************************)
\* the Config that process_query reads
QueryConfig(data_collections, query_engine, default_collection_label) ==
    [t |-> "Config", data_collections |-> data_collections,
     query_engine |-> query_engine,
     default_collection_label |-> default_collection_label]

\* config_reader.get_default_collection: the first configured collection
\* marked default, a FatalFault when there is none to return
get_default_collection(cfg) ==
    LET hits == { i \in DOMAIN cfg.data_collections : cfg.data_collections[i].default }
    IN IF Len(cfg.data_collections) = 0
       THEN FatalFaultError(<<Lit("No Data Collections configured"),
                              Lit(". Please configure at least one Data collection.")>>)
       ELSE IF hits # {}
       THEN First(cfg.data_collections, hits)
       ELSE FatalFaultError(<<Lit("No default Data collection configured")>>)

\* a resolution that takes the last of the collections named
M_resolve_collection(op, params, cfg) ==
    LET collection == params.f[K_collection]
    IN IF collection # None /\ Len(collection.v) > 0
       THEN get_data_collection(collection.v[Len(collection.v)], cfg)
       ELSE IF op = "sia.process_query"
       THEN get_default_collection(cfg)
       ELSE get_data_collection(cfg.default_collection_label, cfg)

\* process_query / query: collection = get_data_collection(label=
\* params.collection[0], ...) if params.collection is not None and
\* len(params.collection) > 0 else <the default>
resolve_collection(op, params, cfg) ==
    LET collection == params.f[K_collection]
    IN IF collection # None /\ Len(collection.v) > 0
       THEN get_data_collection(collection.v[1], cfg)
       ELSE IF op = "sia.process_query"
       THEN get_default_collection(cfg)
       ELSE get_data_collection(cfg.default_collection_label, cfg)

\* ParamFactory.create_params
create_params(query_engine, sia_params) ==
    IF query_engine \in {DIRECT_BUTLER, REMOTE_BUTLER}
    THEN [t |-> "ButlerQueryParamsAdapter", sia_params |-> sia_params]
    ELSE [t |-> "SIAQueryParamsAdapter", sia_params |-> sia_params]

\* x or ()
OrEmpty(x) == IF Truthy(x) THEN x ELSE ListV(<<>>)

\* ButlerQueryParamsAdapter._convert_calib
_convert_calib(calib) ==
    IF calib = None THEN ListV(<<>>)
    ELSE ListV([i \in DOMAIN calib.v |->
                  LET m == CHOOSE j \in DOMAIN CalibLevel.members :
                               CalibLevel.members[j].name = calib.v[i].name
                  IN CalibLevel.members[m].value])

\* SIAv2Parameters.from_siav2(...): the parameter object, or the ValueError
\* of the library, which is its verdict on the values
from_siav2(verdict, args) ==
    IF IsExc(verdict) THEN verdict
    ELSE [t |-> "SIAv2Parameters", args |-> args]

\* BaseQueryParams.to_engine_parameters of the two adapters
to_engine_parameters(adapter, verdict) ==
    LET p == adapter.sia_params
        items == asdict(p)
        kept == { i \in DOMAIN items : items[i].v # None }
    IN IF adapter.t = "ButlerQueryParamsAdapter"
       THEN from_siav2(verdict,
                [instrument |-> OrEmpty(p.f[K_instrument]), pos |-> OrEmpty(p.f[K_pos]),
                 time |-> OrEmpty(p.f[K_time]), band |-> OrEmpty(p.f[K_band]),
                 exptime |-> OrEmpty(p.f[K_exptime]),
                 calib |-> _convert_calib(p.f[K_calib])])
       ELSE Dict([n \in 1..Cardinality(kept) |->
                    items[CHOOSE i \in kept :
                            Cardinality({ j \in kept : j < i }) = n - 1]])

\* an adaptation that lets the ValueError of the library pass
M_adapt_parameters(op, query_engine, params, verdict) ==
    to_engine_parameters(create_params(query_engine, params), verdict)

\* process_query: try: query_params = param_factory.create_params(
\* sia_params=params).to_engine_parameters() except ValueError as exc:
\* raise UsageFaultError(detail=str(exc)); the handler of vosiav2 has no try
adapt_parameters(op, query_engine, params, verdict) ==
    LET query_params == to_engine_parameters(create_params(query_engine, params), verdict)
    IN IF op = "sia.process_query" /\ IsExc(query_params)
                                   /\ query_params.type = "ValueError"
       THEN UsageFaultError(query_params.detail)
       ELSE query_params

\* a to_butler_parameters without the try
M_to_butler_parameters(self, verdict) ==
    from_siav2(verdict,
        [instrument |-> OrEmpty(self.f[K_instrument]), pos |-> OrEmpty(self.f[K_pos]),
         time |-> OrEmpty(self.f[K_time]), band |-> OrEmpty(self.f[K_band]),
         exptime |-> OrEmpty(self.f[K_exptime]),
         calib |-> _convert_calib(self.f[K_calib]),
         maxrec |-> IF self.f[K_maxrec] # None THEN PyStr(self.f[K_maxrec]) ELSE None])

\* SIAQueryParams.to_butler_parameters
to_butler_parameters(self, verdict) ==
    LET made == from_siav2(verdict,
            [instrument |-> OrEmpty(self.f[K_instrument]), pos |-> OrEmpty(self.f[K_pos]),
             time |-> OrEmpty(self.f[K_time]), band |-> OrEmpty(self.f[K_band]),
             exptime |-> OrEmpty(self.f[K_exptime]),
             calib |-> _convert_calib(self.f[K_calib]),
             maxrec |-> IF self.f[K_maxrec] # None THEN PyStr(self.f[K_maxrec])
                        ELSE None])
    IN IF IsExc(made) /\ made.type = "ValueError"
       THEN UsageFaultError(made.detail)
       ELSE made

\* sia.errors.handle_exceptions: what the wrapper raises for the exception
\* that the wrapped function raised
errors_handle_exceptions(exc) ==
    IF IsVOTableError(exc) THEN exc
    ELSE IF exc.type = "RequestValidationError" THEN UsageFaultError(exc.detail)
    ELSE exc

\* vosiav2.exceptions.votable_exception_handler, registered by
\* configure_exception_handlers for VOTableError, RequestValidationError
\* and Exception
exceptions_votable_exception_handler(exc) ==
    LET e == IF exc.type \in {"RequestValidationError", "ValueError"}
             THEN UsageFaultError(exc.detail)
             ELSE IF exc.type \notin {"UsageFaultError", "TransientFaultError",
                                      "FatalFaultError", "DefaultFaultError"}
             THEN DefaultFaultError(exc.detail)
             ELSE exc
    IN [status_code |-> 400, media_type |-> "application/xml",
        votable |-> TRUE, error_message |-> e.detail]

\* a route of package sia that formats every exception as the handler of
\* vosiav2 does
M_query_route_response(op, exc) ==
    exceptions_votable_exception_handler(handle_exceptions(exc))

\* what the caller receives when the processing of the query raised exc:
\* the route's handle_exceptions wrapper, then the exception handlers of
\* the application the route belongs to
query_route_response(op, exc) ==
    CASE op = "sia.process_query" ->
            sia_exception_response(errors_handle_exceptions(exc))
      [] op = "vosiav2.query" ->
            exceptions_votable_exception_handler(handle_exceptions(exc))
      [] OTHER -> sia_exception_response(exc)

\* Response(headers=..., content=result, media_type="application/x-votable+xml")
Response(content) ==
    [status_code |-> 200, media_type |-> "application/x-votable+xml",
     votable |-> TRUE, content |-> content,
     content_disposition |-> "attachment; filename=result.xml"]

\* Factory.create_obscore_config(label): the export configuration of the
\* collection with the label
create_obscore_config(label) == [t |-> "ExporterConfig", label |-> label]

(***************************************************************************)
(* The processing of a query, step by step.  `last` holds the position in  *)
(* the function (pc), the steps performed so far, the values of the local  *)
(* variables, and in the end the exception raised and the response.        *)
(***************************************************************************)
Started(op) ==
    [op |-> op, pc |-> "collection", steps |-> <<>>, collection |-> None,
     query_engine |-> None, query_params |-> None, table |-> None,
     out |-> None, response |-> None]

\* the step raised exc: it leaves the function and the route answers it
Raised(l, step, exc) ==
    [l EXCEPT !.pc = "failed", !.steps = Append(@, step), !.out = exc,
              !.response = query_route_response(l.op, exc)]

IsQueryOp(op) == op \in {"sia.process_query", "vosiav2.query"}

\* process_query lines 45-49, query lines 230-236
ResolveCollection ==
    /\ IsQueryOp(call.op) /\ last = Idle
    /\ LET collection == resolve_collection(call.op, call.params, v2config)
           l == Started(call.op)
       IN last' = IF IsExc(collection) THEN Raised(l, "collection", collection)
                  ELSE [l EXCEPT !.pc = "engine", !.steps = Append(@, "collection"),
                                 !.collection = collection]
    /\ UNCHANGED <<call, config, v2config>>

\* an engine construction whose failure does not end the processing
M_CreateEngine ==
    /\ IsQueryOp(call.op) /\ last.op = call.op /\ last.pc = "engine"
    /\ LET query_engine == create_query_engine(v2config.query_engine,
               <<Item(K_token, call.delegated_token),
                 Item(K_label, last.collection.label),
                 Item(K_config, last.collection.config)>>,
               get_data_repositories(v2config))
       IN last' = [last EXCEPT !.pc = "adaptation", !.steps = Append(@, "engine"),
                               !.query_engine = query_engine]
    /\ UNCHANGED <<call, config, v2config>>

\* process_query lines 52-56, query lines 239-241
CreateEngine ==
    /\ IsQueryOp(call.op) /\ last.op = call.op /\ last.pc = "engine"
    /\ LET query_engine == create_query_engine(v2config.query_engine,
               <<Item(K_token, call.delegated_token),
                 Item(K_label, last.collection.label),
                 Item(K_config, last.collection.config)>>,
               get_data_repositories(v2config))
       IN last' = IF IsExc(query_engine) THEN Raised(last, "engine", query_engine)
                  ELSE [last EXCEPT !.pc = "adaptation", !.steps = Append(@, "engine"),
                                    !.query_engine = query_engine]
    /\ UNCHANGED <<call, config, v2config>>

\* process_query lines 58-64, query lines 242-244
AdaptParameters ==
    /\ IsQueryOp(call.op) /\ last.op = call.op /\ last.pc = "adaptation"
    /\ LET query_params == adapt_parameters(call.op, v2config.query_engine,
                                            call.params, call.from_siav2)
       IN last' = IF IsExc(query_params) THEN Raised(last, "adaptation", query_params)
                  ELSE [last EXCEPT !.pc = "backend", !.steps = Append(@, "adaptation"),
                                    !.query_params = query_params]
    /\ UNCHANGED <<call, config, v2config>>

\* process_query line 67, query line 246: query_engine.sia_query(query_params)
BackendQuery ==
    /\ IsQueryOp(call.op) /\ last.op = call.op /\ last.pc = "backend"
    /\ last' = IF IsExc(call.sia_query) THEN Raised(last, "backend", call.sia_query)
               ELSE [last EXCEPT !.pc = "serialization", !.steps = Append(@, "backend"),
                                 !.table = call.sia_query]
    /\ UNCHANGED <<call, config, v2config>>

\* process_query lines 70-81, query lines 247-258
Serialize ==
    /\ IsQueryOp(call.op) /\ last.op = call.op /\ last.pc = "serialization"
    /\ last' = [last EXCEPT !.pc = "done", !.steps = Append(@, "serialization"),
                            !.response = Response(last.table)]
    /\ UNCHANGED <<call, config, v2config>>

RH == "ResponseHandlerService.process_query"

\* ResponseHandlerService.process_query lines 160-164; the export
\* configuration that create_butler requires is the collection's
RHCreateButler ==
    /\ call.op = RH /\ last = Idle
    /\ LET butler == create_butler(call.process_context, call.collection.config,
                                   call.collection, call.token)
           l == [Started(RH) EXCEPT !.collection = call.collection]
       IN last' = IF IsExc(butler) THEN Raised(l, "engine", butler)
                  ELSE [l EXCEPT !.pc = "maxrec", !.steps = Append(@, "engine"),
                                 !.query_engine =
                                     [butler |-> butler,
                                      obscore_config |->
                                          create_obscore_config(call.collection.label)]]
    /\ UNCHANGED <<call, config, v2config>>

\* ResponseHandlerService.process_query lines 166-172
RHSelfDescription ==
    /\ call.op = RH /\ last.op = RH /\ last.pc = "maxrec"
    /\ call.params.maxrec = IntV(0)
    /\ last' = [last EXCEPT !.pc = "done", !.steps = Append(@, "self_description"),
                            !.response = Response("self_description.xml")]
    /\ UNCHANGED <<call, config, v2config>>

\* ResponseHandlerService.process_query lines 175-179
RHQuery ==
    /\ call.op = RH /\ last.op = RH /\ last.pc = "maxrec"
    /\ call.params.maxrec # IntV(0)
    /\ last' = IF IsExc(call.sia_query) THEN Raised(last, "backend", call.sia_query)
               ELSE [last EXCEPT !.pc = "serialization", !.steps = Append(@, "backend"),
                                 !.table = call.sia_query]
    /\ UNCHANGED <<call, config, v2config>>

\* ResponseHandlerService.process_query lines 182-193
RHSerialize ==
    /\ call.op = RH /\ last.op = RH /\ last.pc = "serialization"
    /\ last' = [last EXCEPT !.pc = "done", !.steps = Append(@, "serialization"),
                            !.response = Response(last.table)]
    /\ UNCHANGED <<call, config, v2config>>

\* params.to_butler_parameters(), in a dependency of a route of package sia
ToButlerParameters ==
    /\ call.op = "to_butler_parameters" /\ last = Idle
    /\ LET query_params == to_butler_parameters(call.params, call.from_siav2)
           l == Started(call.op)
       IN last' = IF IsExc(query_params) THEN Raised(l, "adaptation", query_params)
                  ELSE [l EXCEPT !.pc = "done", !.steps = <<"adaptation">>,
                                 !.query_params = query_params]
    /\ UNCHANGED <<call, config, v2config>>

(***************************************************************************)
(* The queries tried.                                                      *)
(***************************************************************************)
\* a collection that is not marked default and one that is
QueryCollections ==
    { [t |-> "DataCollection", config |-> V_config, label |-> StrV(LSST_DP02),
       repository |-> V_repo, default |-> FALSE],
      [t |-> "DataCollection", config |-> V_config, label |-> V_a,
       repository |-> V_repo2, default |-> TRUE] }

QueryConfigs ==
    { QueryConfig(cs, qe, dl) :
        cs \in SeqsOf(QueryCollections, 0, MaxCollections),
        qe \in {DIRECT_BUTLER, REMOTE_BUTLER},
        dl \in {V_blank, StrV(LSST_DP02)} }

\* params.collection: None, the empty list, or labels
QueryCollectionParams ==
    {None, ListV(<<>>)}
    \cup { ListV(xs) : xs \in SeqsOf({StrV(LSST_DP02), V_a}, 1, MaxValues) }

V_table == [t |-> "VOTableFile"]

\* what the library makes of the parameters
Verdicts ==
    {Lit("ok"), Raise("ValueError", <<Lit("Unrecognized shape in POS string")>>)}

\* what the backend query returns
QueryOutcomes ==
    {V_table, Raise("RuntimeError", <<Lit("Butler server unreachable")>>)}

QueryCalls ==
    { [op |-> op,
       params |-> SIAQueryParams(KwargsOf(Absent, collection, maxrec, Absent)),
       delegated_token |-> tk, from_siav2 |-> verdict, sia_query |-> outcome] :
        op \in {"sia.process_query", "vosiav2.query"},
        collection \in QueryCollectionParams,
        maxrec \in {Absent, IntV(0), IntV(5)},
        tk \in {None, V_token},
        verdict \in Verdicts, outcome \in QueryOutcomes }

RHCalls ==
    { [op |-> RH, process_context |-> ProcessContext(bt, f), collection |-> c,
       token |-> tk, params |-> [t |-> "SIAv2Parameters", maxrec |-> maxrec],
       sia_query |-> outcome] :
        bt \in {DIRECT, REMOTE}, f \in LabeledButlerFactories,
        c \in { [t |-> "ButlerDataCollection", config |-> cp, label |-> label,
                  name |-> V_dp02, repository |-> HttpUrl(V_repo.v),
                  butler_type |-> REMOTE, defaultinstrument |-> V_instrument] :
                    cp \in {V_blank, V_config},
                    label \in {StrV(LSST_DP02), V_blank} },
        tk \in {None, V_token},
        maxrec \in {None, IntV(0), IntV(5)},
        outcome \in QueryOutcomes }

AdaptCalls ==
    { [op |-> "to_butler_parameters",
       params |-> SIAQueryParams(KwargsOf(pos, Absent, maxrec, Absent)),
       from_siav2 |-> verdict] :
        pos \in {Absent} \cup StrLists, maxrec \in {Absent, IntV(0), IntV(5)},
        verdict \in Verdicts }

InitQuery ==
    /\ call \in QueryCalls \cup RHCalls \cup AdaptCalls
    /\ last = Idle
    /\ config = None
    /\ v2config \in IF IsQueryOp(call.op) THEN QueryConfigs ELSE {None}

NextQuery ==
    \/ ResolveCollection
    \/ CreateEngine
    \/ AdaptParameters
    \/ BackendQuery
    \/ Serialize
    \/ RHCreateButler
    \/ RHSelfDescription
    \/ RHQuery
    \/ RHSerialize
    \/ ToButlerParameters

SpecQuery == InitQuery /\ [][NextQuery]_vars

\* the collection that the processing resolved, or the exception that the
\* resolution raised
Resolved ==
    IF last.pc = "failed" /\ last.steps = <<"collection">> THEN last.out
    ELSE last.collection

\* C14: process_query resolves the collection from the first element of
\* params.collection when the list is present and not empty, whatever the
\* further elements are, and from the default of the registry when the list
\* is absent or empty.
C14_FirstNamedCollectionElseDefault ==
    (IsQueryOp(call.op) /\ last.op = call.op) =>
        LET named == call.params.f[K_collection]
        IN /\ (named # None /\ named.v # <<>>) =>
                 /\ Resolved = get_data_collection(named.v[1], v2config)
                 /\ ~IsExc(Resolved) => Resolved.label = named.v[1]
           /\ (named = None \/ named.v = <<>>) =>
                 Resolved = IF call.op = "sia.process_query"
                            THEN get_default_collection(v2config)
                            ELSE get_data_collection(v2config.default_collection_label,
                                                     v2config)

\* two different collections, both configured, were named, and the first
\* was resolved
C14_Witness ==
    /\ IsQueryOp(call.op) /\ last.op = call.op
    /\ call.params.f[K_collection] = ListV(<<V_a, StrV(LSST_DP02)>>)
    /\ \E i \in DOMAIN v2config.data_collections :
          v2config.data_collections[i].label = StrV(LSST_DP02)
    /\ ~IsExc(Resolved)
    /\ Resolved.label = V_a

\* whether the step has been performed (or has failed) in the processing
Performed(step) == \E i \in DOMAIN last.steps : last.steps[i] = step

\* C15: whenever the parameters of a query have maxrec == 0, the backend
\* query is never invoked for the request, and the response that the
\* processing completes with is the self-description document.
C15_MaxrecZeroNeverQueriesBackend ==
    LET maxrec == IF call.op = RH THEN call.params.maxrec
                  ELSE call.params.f[K_maxrec]
    IN (last.op = call.op /\ call.op # "to_butler_parameters" /\ maxrec = IntV(0)) =>
          /\ ~Performed("backend")
          /\ last.pc = "done" => last.response.content = "self_description.xml"

\* the place of a step in the order of the processing
StepRank(step) ==
    CASE step = "collection" -> 1
      [] step = "engine" -> 2
      [] step = "adaptation" -> 3
      [] step = "self_description" -> 4
      [] step = "backend" -> 4
      [] step = "serialization" -> 5

\* C16: the steps of one request run strictly in the order collection
\* resolution, engine construction, parameter adaptation, backend query,
\* serialization: each step of the processing adds one step that comes
\* later in the order than every step before it, no step runs after a step
\* has failed, and a request that lacks the token of the REMOTE kind fails
\* at engine construction whether or not its parameters can be parsed.
C16_StepsRunInOrderAndStopAtFailure ==
    [][ /\ last.op = call.op =>
            /\ last.pc \notin {"failed", "done"}
            /\ Len(last'.steps) = Len(last.steps) + 1
            /\ SubSeq(last'.steps, 1, Len(last.steps)) = last.steps
            /\ \A i \in DOMAIN last.steps :
                  StepRank(last.steps[i]) < StepRank(last'.steps[Len(last'.steps)])
        /\ (/\ last.op = call.op
            /\ last.pc = "engine"
            /\ v2config.query_engine = REMOTE_BUTLER
            /\ ~Truthy(call.delegated_token)) =>
               /\ last'.pc = "failed"
               /\ last'.steps = <<"collection", "engine">>
               /\ IsFatalFault(last'.out, "Token is required")
      ]_vars

\* a request without token whose parameters the library cannot parse has
\* failed at engine construction
C16_Witness ==
    /\ call.op = "sia.process_query" /\ last.op = call.op
    /\ v2config.query_engine = REMOTE_BUTLER
    /\ call.delegated_token = None
    /\ IsExc(call.from_siav2)
    /\ last.pc = "failed"
    /\ last.steps = <<"collection", "engine">>

\* the exception that leaves the route: what its handle_exceptions wrapper
\* raises for the exception that the processing raised
LeftRoute ==
    CASE call.op = "sia.process_query" -> errors_handle_exceptions(last.out)
      [] call.op = "vosiav2.query" -> handle_exceptions(last.out)
      [] OTHER -> last.out

\* C17: a ValueError raised while the parameters are converted to engine
\* parameters leaves as a UsageFaultError whose detail is "UsageFault: "
\* followed by the message of the ValueError: the conversion does not
\* complete and no other fault is raised for it.
C17_AdaptationValueErrorIsUsageFault ==
    (/\ last.op = call.op
     /\ call.op \in {"sia.process_query", "vosiav2.query", "to_butler_parameters"}
     /\ Performed("adaptation")
     /\ IsExc(call.from_siav2) /\ call.from_siav2.type = "ValueError") =>
        /\ last.pc = "failed"
        /\ last.steps[Len(last.steps)] = "adaptation"
        /\ call.op # "vosiav2.query" => last.out.type = "UsageFaultError"
        /\ LeftRoute.type = "UsageFaultError"
        /\ LeftRoute.detail = <<Lit("UsageFault: ")>> \o call.from_siav2.detail
        /\ last.response.status_code = 400
        /\ last.response.error_message = LeftRoute.detail

\* the library has refused the parameters of a query whose engine was made
C17_Witness ==
    /\ call.op = "sia.process_query" /\ last.op = call.op
    /\ last.steps = <<"collection", "engine", "adaptation">>
    /\ IsExc(call.from_siav2)
    /\ last.pc = "failed"

\* C18: an exception raised while a query is processed that is no
\* UsageFault, TransientFault or FatalFault (and no ValueError of the
\* parameter adaptation, which is a UsageFault) is answered as a
\* DefaultFault: the caller receives HTTP 400 with a VOTable error document
\* whose text is "DefaultFault: " followed by the detail of the exception.
C18_UnexpectedExceptionIsDefaultFault ==
    (/\ last.op = call.op
     /\ last.pc = "failed"
     /\ last.out.type \notin {"UsageFaultError", "TransientFaultError",
                              "FatalFaultError", "DefaultFaultError"}
     /\ ~(last.out.type = "ValueError"
          /\ last.steps[Len(last.steps)] = "adaptation")) =>
        /\ last.response.status_code = 400
        /\ last.response.votable
        /\ last.response.media_type = "application/xml"
        /\ last.response.error_message = <<Lit("DefaultFault: ")>> \o last.out.detail

\* C19: a request to a collection name that no configured collection has
\* is answered as a UsageFault: HTTP 400 with a VOTable error document
\* (QUERY_STATUS=ERROR) whose text starts with "UsageFault: ".
C19_UnknownCollectionIsUsageFault ==
    (/\ last.op = "sia.validate_collection"
     /\ Truthy(call.value)
     /\ \A i \in DOMAIN config.butler_data_collections :
           upper(config.butler_data_collections[i].name.v) # upper(call.value.v)) =>
        /\ IsExc(last.out)
        /\ last.response.status_code = 400
        /\ last.response.votable
        /\ last.response.error_message[1] = Lit("UsageFault: ")

(***************************************************************************)
(* sia/services/availability.py, vosiav2/services/availability.py: the     *)
(* availability check of the REMOTE kind.  The GET is made by httpx,       *)
(* outside the repository: what it comes to (a response with a status      *)
(* code, or an exception raised by the client) is given with the call.     *)
(***************************************************************************)
\* Availability(available=..., note=...)
Availability(available, note) ==
    [t |-> "Availability", available |-> available, note |-> note]

\* a response of the probed server
HttpResponse(status_code) == [t |-> "Response", status_code |-> status_code]

\* except (KeyError, ValueError, FatalFaultError)
IsCaughtByChecker(exc) == exc.type \in {"KeyError", "ValueError", "FatalFaultError"}

\* sia RemoteButlerAvailabilityChecker.check_availability(collection=...);
\* get is what client.get(str(repository)) comes to, the note [str(exc)]
\* holds the message as the pieces it is formatted from
check_availability(collection, get) ==
    LET repository == collection.repository
        r == IF Truthy(repository) THEN get ELSE None
    IN IF IsExc(r)
       THEN IF IsCaughtByChecker(r)
            THEN Availability(FALSE, ListV(<<StrV(r.detail)>>))
            ELSE r
       ELSE IF r = None
       THEN Availability(FALSE, None)
       ELSE Availability(r.status_code = 200, None)

\* vosiav2 RemoteButlerAvailabilityChecker.check_availability(config)
config_check_availability(cfg, get) ==
    LET default_collection == get_data_collection(cfg.default_collection_label, cfg)
        r == IF Truthy(default_collection.repository) THEN get ELSE None
    IN IF IsExc(default_collection)
       THEN IF IsCaughtByChecker(default_collection)
            THEN Availability(FALSE, None)
            ELSE default_collection
       ELSE IF IsExc(r)
       THEN IF IsCaughtByChecker(r)
            THEN Availability(FALSE, None)
            ELSE r
       ELSE IF r = None
       THEN Availability(FALSE, None)
       ELSE Availability(r.status_code = 200, None)

\* DirectButlerAvailabilityChecker.check_availability, of both packages
direct_check_availability == Availability(TRUE, None)

\* sia AvailabilityService.get_availability; checkers are the keys of the
\* strategy table self._checkers
get_availability(collection, checkers, get) ==
    LET butler_type == collection.butler_type
    IN IF butler_type \in checkers
       THEN IF butler_type = DIRECT
            THEN direct_check_availability
            ELSE check_availability(collection, get)
       ELSE Availability(FALSE, ListV(<<StrV(<<Lit("Unknown Butler type")>>)>>))

\* vosiav2 AvailabilityService.get_availability; checkers are the keys of
\* the strategy table self.checkers
config_get_availability(cfg, checkers, get) ==
    IF cfg.query_engine \in checkers
    THEN IF cfg.query_engine = DIRECT_BUTLER
         THEN direct_check_availability
         ELSE config_check_availability(cfg, get)
    ELSE Availability(TRUE, None)

\* what the GET of the probe comes to
ProbeOutcomes ==
    { HttpResponse(status_code) : status_code \in {200, 204, 404} }
    \cup { Raise("ConnectError", <<Lit("All connection attempts failed")>>),
           Raise("ValueError", <<Lit("Invalid URL")>>) }

AvailabilityCalls ==
    { [op |-> "sia.check_availability", collection |-> c, get |-> g] :
        c \in EngineCollections, g \in ProbeOutcomes }
    \cup { [op |-> "vosiav2.check_availability", get |-> g] : g \in ProbeOutcomes }
    \cup { [op |-> "sia.get_availability",
            collection |-> [c EXCEPT !.butler_type = bt],
            checkers |-> ks, get |-> g] :
             c \in EngineCollections, bt \in {DIRECT, REMOTE},
             ks \in SUBSET {DIRECT, REMOTE}, g \in ProbeOutcomes }
    \cup { [op |-> "vosiav2.get_availability", checkers |-> ks, get |-> g] :
             ks \in SUBSET {DIRECT_BUTLER, REMOTE_BUTLER}, g \in ProbeOutcomes }

AvailabilityConfigs ==
    { QueryConfig(cs, REMOTE_BUTLER, dl) :
        cs \in SeqsOf(DataCollections, 0, MaxCollections),
        dl \in {V_blank, StrV(LSST_DP02)} }

\* the configurations of the service: either kind of engine
ServiceConfigs ==
    { [cfg EXCEPT !.query_engine = qe] :
        cfg \in AvailabilityConfigs, qe \in {DIRECT_BUTLER, REMOTE_BUTLER} }

InitAvailability ==
    /\ call \in AvailabilityCalls
    /\ last = Idle
    /\ config = None
    /\ v2config \in CASE call.op = "vosiav2.check_availability" -> AvailabilityConfigs
                      [] call.op = "vosiav2.get_availability" -> ServiceConfigs
                      [] OTHER -> {None}

\* RemoteButlerAvailabilityChecker().check_availability(collection=...)
SiaCheckAvailability ==
    /\ call.op = "sia.check_availability" /\ last = Idle
    /\ last' = [op |-> call.op, out |-> check_availability(call.collection, call.get)]
    /\ UNCHANGED <<call, config, v2config>>

\* RemoteButlerAvailabilityChecker().check_availability(config=config)
V2CheckAvailability ==
    /\ call.op = "vosiav2.check_availability" /\ last = Idle
    /\ last' = [op |-> call.op, out |-> config_check_availability(v2config, call.get)]
    /\ UNCHANGED <<call, config, v2config>>

\* AvailabilityService(collection=...).get_availability()
SiaGetAvailability ==
    /\ call.op = "sia.get_availability" /\ last = Idle
    /\ last' = [op |-> call.op,
                out |-> get_availability(call.collection, call.checkers, call.get)]
    /\ UNCHANGED <<call, config, v2config>>

\* AvailabilityService(config=config).get_availability()
V2GetAvailability ==
    /\ call.op = "vosiav2.get_availability" /\ last = Idle
    /\ last' = [op |-> call.op,
                out |-> config_get_availability(v2config, call.checkers, call.get)]
    /\ UNCHANGED <<call, config, v2config>>

NextAvailability ==
    \/ SiaCheckAvailability
    \/ V2CheckAvailability
    \/ SiaGetAvailability
    \/ V2GetAvailability

SpecAvailability == InitAvailability /\ [][NextAvailability]_vars

\* the exception that the probe of the call raised, in the lookup of the
\* collection or in the GET, or None
ProbeRaised ==
    LET default_collection ==
            get_data_collection(v2config.default_collection_label, v2config)
        repository == IF call.op = "sia.check_availability"
                      THEN call.collection.repository
                      ELSE default_collection.repository
    IN IF call.op = "vosiav2.check_availability" /\ IsExc(default_collection)
       THEN default_collection
       ELSE IF Truthy(repository) /\ IsExc(call.get) THEN call.get
       ELSE None

\* C20: the availability check of the REMOTE kind always returns a report:
\* available is true iff the GET to the repository was made and completed
\* with status 200, and an exception raised by the probe is not propagated
\* but reported as available=false with the text of the exception as note.
C20_RemoteCheckAlwaysReports ==
    last.op \in {"sia.check_availability", "vosiav2.check_availability"} =>
        /\ ~IsExc(last.out)
        /\ last.out.t = "Availability"
        /\ last.out.available <=>
              /\ ProbeRaised = None
              /\ ~IsExc(call.get)
              /\ call.get.status_code = 200
              /\ last.op = "sia.check_availability" => Truthy(call.collection.repository)
        /\ ProbeRaised # None =>
              /\ last.out.available = FALSE
              /\ last.out.note = ListV(<<StrV(ProbeRaised.detail)>>)

\* the backend kind that the service of the call looks up in its table
ServiceKind ==
    IF call.op = "sia.get_availability"
    THEN call.collection.butler_type
    ELSE v2config.query_engine

\* C21: when the backend kind has no entry in the strategy table, the
\* availability service reports available=false with an explanatory note;
\* it reports available=true only through the DIRECT or REMOTE checker.
C21_UnknownKindReportsUnavailable ==
    last.op \in {"sia.get_availability", "vosiav2.get_availability"} =>
        /\ ServiceKind \notin call.checkers =>
              /\ ~IsExc(last.out)
              /\ last.out.available = FALSE
              /\ last.out.note # None
              /\ last.out.note.v # <<>>
        /\ (~IsExc(last.out) /\ last.out.available) => ServiceKind \in call.checkers

(***************************************************************************)
(* sia/services/response_handler.py: the self-description.  The spectral   *)
(* ranges of an ExporterConfig are a dict from the name of the range to    *)
(* the pair (low, high); a bound is None or a number (here in nm).  What   *)
(* butler.query_dimension_records("instrument") and request.url_for        *)
(* return is outside the repository and given with the call.               *)
(***************************************************************************)
\* BandInfo(label=..., low=..., high=...)
BandInfo(label, low, high) == [t |-> "BandInfo", label |-> label, low |-> low, high |-> high]

\* ExporterConfig: the fields that the self-description reads
ExporterConfig(facility_name, obs_collection, spectral_ranges) ==
    [t |-> "ExporterConfig", facility_name |-> facility_name,
     obs_collection |-> obs_collection, spectral_ranges |-> spectral_ranges]

\* f"Rubin band {band_name}"
RubinBandLabel(band_name) ==
    StrV(<<"R","u","b","i","n"," ","b","a","n","d"," ">> \o band_name.v)

\* a _generate_band_info that requires the low bound only
RECURSIVE M__generate_band_info(_)
M__generate_band_info(spectral_ranges) ==
    IF spectral_ranges = <<>> THEN <<>>
    ELSE LET band_name == Head(spectral_ranges).k
             low == Head(spectral_ranges).v[1]
             high == Head(spectral_ranges).v[2]
             bands == M__generate_band_info(Tail(spectral_ranges))
         IN IF low # None
            THEN <<BandInfo(RubinBandLabel(band_name), low, high)>> \o bands
            ELSE bands

\* ResponseHandlerService._generate_band_info: the loop over
\* spectral_ranges.items()
RECURSIVE _generate_band_info(_)
_generate_band_info(spectral_ranges) ==
    IF spectral_ranges = <<>> THEN <<>>
    ELSE LET band_name == Head(spectral_ranges).k
             low == Head(spectral_ranges).v[1]
             high == Head(spectral_ranges).v[2]
             bands == _generate_band_info(Tail(spectral_ranges))
         IN IF low # None /\ high # None
            THEN <<BandInfo(RubinBandLabel(band_name), low, high)>> \o bands
            ELSE bands

\* str.strip() of a sequence of characters
RECURSIVE strip(_)
strip(s) ==
    IF s = <<>> THEN s
    ELSE IF Head(s) = " " THEN strip(Tail(s))
    ELSE IF s[Len(s)] = " " THEN strip(SubSeq(s, 1, Len(s) - 1))
    ELSE s

\* ResponseHandlerService.self_description_response: the template response
\* with its context
self_description_response(instruments, access_url, obscore_config, butler_collection) ==
    LET bands == _generate_band_info(obscore_config.spectral_ranges.d)
    IN [t |-> "TemplateResponse", template |-> "self_description.xml",
        context |-> [instruments |-> instruments,
                     collections |-> <<obscore_config.obs_collection>>,
                     resource_identifier |->
                         <<Lit("BASE_RESOURCE_IDENTIFIER"), Lit("/"),
                           butler_collection.label>>,
                     access_url |-> access_url,
                     facility_name |-> StrV(strip(obscore_config.facility_name.v)),
                     bands |-> bands],
        media_type |-> "application/x-votable+xml"]

(***************************************************************************)
(* The self-descriptions tried.                                            *)
(***************************************************************************)
V_g == StrV(<<"g">>)
V_r == StrV(<<"r">>)
V_HSC_G == StrV(<<"H","S","C","-","G">>)

BandNames == {V_g, V_r, V_HSC_G}

\* a pair (low, high): bounds missing, zero, or positive
BandRanges ==
    { <<low, high>> : low \in {None, IntV(0), IntV(406)}, high \in {None, IntV(545)} }

\* the dicts of at most n spectral ranges: the names of a dict are distinct
SpectralRanges(n) ==
    { Dict(d) : d \in { x \in SeqsOf({ Item(k, v) : k \in BandNames, v \in BandRanges }, 0, n) :
                          \A i, j \in DOMAIN x : x[i].k = x[j].k => i = j } }

FacilityNames ==
    { StrV(<<"R","u","b","i","n">>), StrV(<<"S","u","b","a","r","u">>),
      StrV(<<" ","S","u","b","a","r","u"," ">>) }

InitBands ==
    /\ \E sr \in SpectralRanges(MaxItems) :
          call \in { [op |-> "_generate_band_info", spectral_ranges |-> sr] }
                   \cup { [op |-> "self_description_response",
                           instruments |-> <<V_instrument>>,
                           access_url |-> V_repo,
                           obscore_config |-> ExporterConfig(f, V_dp02, sr),
                           butler_collection |-> c] :
                            f \in FacilityNames,
                            c \in { x \in EngineCollections : Truthy(x.label) } }
    /\ last = Idle
    /\ config = None
    /\ v2config = None

\* ResponseHandlerService._generate_band_info(spectral_ranges)
GenerateBandInfo ==
    /\ call.op = "_generate_band_info" /\ last = Idle
    /\ last' = [op |-> call.op, out |-> _generate_band_info(call.spectral_ranges.d)]
    /\ UNCHANGED <<call, config, v2config>>

\* ResponseHandlerService.self_description_response(request, butler,
\* obscore_config, butler_collection)
SelfDescriptionResponse ==
    /\ call.op = "self_description_response" /\ last = Idle
    /\ last' = [op |-> call.op,
                out |-> self_description_response(call.instruments, call.access_url,
                                                  call.obscore_config,
                                                  call.butler_collection)]
    /\ UNCHANGED <<call, config, v2config>>

NextBands ==
    \/ GenerateBandInfo
    \/ SelfDescriptionResponse

SpecBands == InitBands /\ [][NextBands]_vars

\* the spectral ranges of the call
RangesOfCall ==
    IF call.op = "_generate_band_info"
    THEN call.spectral_ranges.d
    ELSE call.obscore_config.spectral_ranges.d

\* the bands of the outcome
BandsOfOutcome ==
    IF last.op = "_generate_band_info" THEN last.out ELSE last.out.context.bands

\* the positions of the ranges that have both bounds
CompleteRanges == { i \in DOMAIN RangesOfCall :
                      RangesOfCall[i].v[1] # None /\ RangesOfCall[i].v[2] # None }

\* the position of the k-th complete range
CompleteAt(k) ==
    CHOOSE i \in CompleteRanges : Cardinality({ j \in CompleteRanges : j <= i }) = k

\* s ends with the characters e
EndsWith(s, e) == Len(s) >= Len(e) /\ SubSeq(s, Len(s) - Len(e) + 1, Len(s)) = e

\* C22: band derivation emits exactly one band descriptor for each named
\* spectral range whose low and high bounds are both present, in the order
\* of the export configuration and with those bounds, and emits nothing for
\* a range missing either bound.
C22_OneBandPerCompleteRange ==
    last.op \in {"_generate_band_info", "self_description_response"} =>
        /\ Len(BandsOfOutcome) = Cardinality(CompleteRanges)
        /\ \A k \in DOMAIN BandsOfOutcome :
              /\ BandsOfOutcome[k].low = RangesOfCall[CompleteAt(k)].v[1]
              /\ BandsOfOutcome[k].high = RangesOfCall[CompleteAt(k)].v[2]
              /\ EndsWith(BandsOfOutcome[k].label.v,
                          <<" ">> \o RangesOfCall[CompleteAt(k)].k.v)

\* the bands were derived from ranges of which one has only its low bound
\* and one is complete with the low bound zero: a descriptor came out, and
\* fewer descriptors than ranges
C22_Witness ==
    /\ last.op = "_generate_band_info"
    /\ Len(RangesOfCall) > Cardinality(CompleteRanges)
    /\ \E i \in DOMAIN RangesOfCall :
          RangesOfCall[i].v[1] # None /\ RangesOfCall[i].v[2] = None
    /\ \E i \in CompleteRanges : RangesOfCall[i].v[1] = IntV(0)
    /\ Len(last.out) >= 1

\* C23: each band descriptor of the self-description is labelled
\* "<facility> band <name>": the facility name of the export configuration
\* of the collection, " band ", and the name of the spectral range.
C23_BandLabelNamesFacility ==
    last.op = "self_description_response" =>
        \A k \in DOMAIN last.out.context.bands :
            last.out.context.bands[k].label.v =
                strip(call.obscore_config.facility_name.v)
                \o <<" ","b","a","n","d"," ">>
                \o RangesOfCall[CompleteAt(k)].k.v

(***************************************************************************)
(* Concurrent requests of package sia.  What the process shares between    *)
(* its requests is the Config and the ProcessContext with the              *)
(* LabeledButlerFactory, as application startup left them; it is held in   *)
(* the variable config.  Every request has its own inputs (call[r]) and    *)
(* its own local variables (last[r]); a request runs from one suspension   *)
(* point to the next in one step, and the steps of the requests interleave *)
(* in any order.  A step that assigns to an object is given with the       *)
(* objects it leaves: the shared ones and the local one.                   *)
(***************************************************************************)
\* the number of requests in flight
MaxRequests == 2

Requests == 1..MaxRequests

\* LabeledButlerFactoryDependency.initialize: the factory made from the
\* repositories of the configuration
LabeledButlerFactoryDependency_initialize(cfg) ==
    LabeledButlerFactory(DataCollectionService_get_data_repositories(cfg))

\* ProcessContext.create: the factory that the dependency returns (held),
\* for the REMOTE kind only
ProcessContext_create(butler_type, held) ==
    ProcessContext(butler_type, IF butler_type = REMOTE THEN held ELSE None)

\* what the process shares once lifespan has started the application
Shared(cfg, butler_type) ==
    [t |-> "shared", config |-> cfg,
     process_context |->
         ProcessContext_create(butler_type, LabeledButlerFactoryDependency_initialize(cfg))]

\* the local variables of a request that has not started
NotStarted ==
    [pc |-> "start", collection |-> None, butler_repos |-> <<>>, i |-> 1,
     butler |-> None, table |-> None, out |-> None]

\* a create_butler that keeps the default instrument of the collection in
\* the factory, under the label
M_Factory_create_butler(shared, config_path, butler_collection, token) ==
    LET butler == create_butler(shared.process_context, config_path,
                                butler_collection, token)
    IN [shared |-> IF IsExc(butler) \/ butler.kind = DIRECT THEN shared
                   ELSE [shared EXCEPT
                            !.process_context.labeled_butler_factory.repositories =
                                Dict(DictSet(@.d, butler_collection.label,
                                             butler_collection.defaultinstrument))],
        butler |-> butler]

\* Factory.create_butler as a step of a request: it reads the process
\* context; butler.registry.defaults = ... assigns to the Butler that the
\* call made
Factory_create_butler(shared, config_path, butler_collection, token) ==
    [shared |-> shared,
     butler |-> create_butler(shared.process_context, config_path,
                              butler_collection, token)]

\* one iteration of the loop of DataCollectionService.get_data_repositories:
\* butler_repos[collection.label] = str(collection.repository) assigns to
\* the dict that the call made
get_data_repositories_iteration(shared, butler_repos, i) ==
    [shared |-> shared,
     butler_repos |->
         sia_repositories_loop(<<shared.config.butler_data_collections[i]>>, butler_repos)]

(***************************************************************************)
(* The process and the requests tried.                                     *)
(***************************************************************************)
V_HSC == StrV(<<"h","s","c">>)

ProcessCollections ==
    << [t |-> "ButlerDataCollection", config |-> V_config, label |-> StrV(LSST_DP02),
        name |-> V_dp02, repository |-> HttpUrl(V_repo.v), butler_type |-> REMOTE,
        defaultinstrument |-> V_instrument],
       [t |-> "ButlerDataCollection", config |-> V_config, label |-> V_a,
        name |-> V_HSC, repository |-> Path(V_repo2.v), butler_type |-> DIRECT,
        defaultinstrument |-> V_instrument] >>

ProcessConfigs ==
    { Config(cs) : cs \in { <<ProcessCollections[1]>>, ProcessCollections,
                            <<ProcessCollections[2], ProcessCollections[1]>> } }

RequestCalls ==
    { [op |-> "lookup", label |-> l] : l \in {StrV(LSST_DP02), V_b} }
    \cup { [op |-> "repositories"] }
    \cup { [op |-> "query", name |-> V_dp02, token |-> tk, maxrec |-> maxrec,
            sia_query |-> V_table] :
             tk \in {None, V_token}, maxrec \in {IntV(0), IntV(5)} }
    \cup { [op |-> "availability", name |-> n, get |-> g] :
             n \in {V_dp02, V_HSC},
             g \in {HttpResponse(200), Raise("ValueError", <<Lit("Invalid URL")>>)} }

InitConcurrent ==
    /\ call \in [Requests -> RequestCalls]
    /\ last = [r \in Requests |-> NotStarted]
    /\ config \in { Shared(cfg, bt) : cfg \in ProcessConfigs, bt \in {DIRECT, REMOTE} }
    /\ v2config = None

\* DataCollectionService.get_data_collection_by_label(label=...)
RequestLookup(r) ==
    /\ call[r].op = "lookup" /\ last[r].pc = "start"
    /\ last' = [last EXCEPT ![r].pc = "done",
                   ![r].out = get_data_collection_by_label(config.config, call[r].label)]
    /\ UNCHANGED <<call, config, v2config>>

\* DataCollectionService.get_data_repositories(): the loop, an iteration
\* at a time, then the return
RequestRepositories(r) ==
    /\ call[r].op = "repositories" /\ last[r].pc = "start"
    /\ IF last[r].i \in DOMAIN config.config.butler_data_collections
       THEN LET left == get_data_repositories_iteration(config, last[r].butler_repos,
                                                        last[r].i)
            IN /\ last' = [last EXCEPT ![r].butler_repos = left.butler_repos,
                                       ![r].i = @ + 1]
               /\ config' = left.shared
       ELSE /\ last' = [last EXCEPT ![r].pc = "done",
                                    ![r].out = Dict(last[r].butler_repos)]
            /\ config' = config
    /\ UNCHANGED <<call, v2config>>

\* the dependency validate_collection of the routes query and availability
RequestValidateCollection(r) ==
    /\ call[r].op \in {"query", "availability"} /\ last[r].pc = "start"
    /\ LET collection == validate_collection(config.config, call[r].name)
       IN last' = IF IsExc(collection)
                  THEN [last EXCEPT ![r].pc = "done", ![r].out = collection]
                  ELSE [last EXCEPT ![r].pc = "validated", ![r].collection = collection]
    /\ UNCHANGED <<call, config, v2config>>

\* ResponseHandlerService.process_query lines 160-164: the engine
RequestCreateButler(r) ==
    /\ call[r].op = "query" /\ last[r].pc = "validated"
    /\ LET left == Factory_create_butler(config, last[r].collection.config,
                                         last[r].collection, call[r].token)
       IN /\ last' = IF IsExc(left.butler)
                     THEN [last EXCEPT ![r].pc = "done", ![r].out = left.butler]
                     ELSE [last EXCEPT ![r].pc = "engine", ![r].butler = left.butler]
          /\ config' = left.shared
    /\ UNCHANGED <<call, v2config>>

\* ResponseHandlerService.process_query lines 166-193: the self-description,
\* or the query of the backend and its serialization
RequestRespond(r) ==
    /\ call[r].op = "query" /\ last[r].pc = "engine"
    /\ last' = IF call[r].maxrec = IntV(0)
               THEN [last EXCEPT ![r].pc = "done",
                                 ![r].out = Response("self_description.xml")]
               ELSE [last EXCEPT ![r].pc = "done", ![r].table = call[r].sia_query,
                                 ![r].out = Response(call[r].sia_query)]
    /\ UNCHANGED <<call, config, v2config>>

\* AvailabilityService.get_availability up to the GET of the REMOTE checker,
\* where the request is suspended
RequestAvailability(r) ==
    /\ call[r].op = "availability" /\ last[r].pc = "validated"
    /\ last' = IF last[r].collection.butler_type = REMOTE
                  /\ Truthy(last[r].collection.repository)
               THEN [last EXCEPT ![r].pc = "get"]
               ELSE [last EXCEPT ![r].pc = "done",
                        ![r].out = get_availability(last[r].collection,
                                                    {DIRECT, REMOTE}, call[r].get)]
    /\ UNCHANGED <<call, config, v2config>>

\* the GET of the REMOTE checker completes
RequestProbeCompletes(r) ==
    /\ call[r].op = "availability" /\ last[r].pc = "get"
    /\ last' = [last EXCEPT ![r].pc = "done",
                   ![r].out = get_availability(last[r].collection, {DIRECT, REMOTE},
                                               call[r].get)]
    /\ UNCHANGED <<call, config, v2config>>

NextConcurrent ==
    \/ \E r \in Requests : RequestLookup(r)
    \/ \E r \in Requests : RequestRepositories(r)
    \/ \E r \in Requests : RequestValidateCollection(r)
    \/ \E r \in Requests : RequestCreateButler(r)
    \/ \E r \in Requests : RequestRespond(r)
    \/ \E r \in Requests : RequestAvailability(r)
    \/ \E r \in Requests : RequestProbeCompletes(r)

SpecConcurrent == InitConcurrent /\ [][NextConcurrent]_vars

\* C24: under any interleaving of the steps of concurrent requests (registry
\* lookups, engine construction, query processing, availability checks) the
\* configured collection list and the process-wide labelled connection
\* factory are left unchanged: after every step of a request they are what
\* they were when initialization finished.
C24_RequestsLeaveSharedStateUnchanged ==
    [][/\ config'.config.butler_data_collections = config.config.butler_data_collections
       /\ config'.process_context.labeled_butler_factory =
              config.process_context.labeled_butler_factory]_vars

\* a request made a Butler of the factory while another request was
\* suspended in its probe, its repository map or its query
C24_Witness ==
    \E r, o \in Requests :
        /\ r # o
        /\ call[r].op = "query" /\ last[r].pc \in {"engine", "done"}
        /\ ~IsExc(last[r].butler) /\ last[r].butler # None /\ last[r].butler.kind = REMOTE
        /\ \/ last[o].pc = "get"
           \/ call[o].op = "repositories" /\ last[o].pc = "start" /\ last[o].i > 1
           \/ call[o].op = "query" /\ last[o].pc = "engine"

\* C25: for the DIRECT kind and a resolved collection with a non-empty
\* repository and export configuration, the engine construction of the
\* processing succeeds: the factory receives the repository of the resolved
\* collection, and the engine holds a local Butler made from it.
C25_DirectEngineIsBoundToRepository ==
    (/\ IsQueryOp(call.op) /\ last.op = call.op
     /\ v2config.query_engine = DIRECT_BUTLER
     /\ Performed("engine")
     /\ Truthy(last.collection.repository)
     /\ Truthy(last.collection.config)) =>
        /\ last.query_engine # None
        /\ last.query_engine.t = "DirectButlerQueryEngine"
        /\ last.query_engine.repo = last.collection.repository
        /\ last.query_engine.butler.kind = DIRECT
        /\ last.query_engine.butler.repository = last.collection.repository

\* the outcome is what the connection factory made of the call: a Butler,
\* an engine, or the KeyError of a label it has no repository for
FactoryInvoked(out) ==
    \/ ~IsExc(out)
    \/ out.type = "KeyError"

\* C26: REMOTE engine construction checks its preconditions in the order
\* label, token, then connection factory / export configuration, and invokes
\* the create_butler of the connection factory only after all of them have
\* passed; with the label and the token both missing the fault reported is
\* the one of the missing label.
C26_RemotePreconditionsInOrder ==
    /\ (last.op = "create_butler" /\ call.process_context.butler_type = REMOTE) =>
          LET label == call.butler_collection.label
              factory == call.process_context.labeled_butler_factory
          IN /\ ~Truthy(label) => IsFatalFault(last.out, "No Butler label configured")
             /\ (Truthy(label) /\ ~Truthy(call.token)) =>
                   IsFatalFault(last.out, "Token is required")
             /\ (Truthy(label) /\ Truthy(call.token) /\ factory = None) =>
                   IsFatalFault(last.out, "No LabeledButlerFactory configured")
             /\ FactoryInvoked(last.out) =>
                   /\ Truthy(label) /\ Truthy(call.token) /\ factory # None
                   /\ Truthy(call.config_path)
    /\ (last.op = "create_query_engine" /\ call.query_engine = REMOTE_BUTLER) =>
          LET label == kwargs_get(call.kwargs, K_label)
              token == kwargs_get(call.kwargs, K_token)
              butler_config == kwargs_get(call.kwargs, K_config)
          IN /\ ~Truthy(label) => IsFatalFault(last.out, "No Butler label configured")
             /\ (Truthy(label) /\ ~Truthy(token)) =>
                   IsFatalFault(last.out, "Token is required")
             /\ (Truthy(label) /\ Truthy(token) /\ ~Truthy(butler_config)) =>
                   IsFatalFault(last.out, "No Butler configuration file configured")
             /\ FactoryInvoked(last.out) =>
                   Truthy(label) /\ Truthy(token) /\ Truthy(butler_config)

(***************************************************************************)
(* sia/models/data_collections.py: ButlerDataCollection.get_exporter_config.*)
(* ButlerConfig(str(self.config)) and ExporterConfig.model_validate read   *)
(* the export configuration outside the repository: the dataset types it   *)
(* holds, each with its datalink_url_fmt (None or a format), are given     *)
(* with the call.                                                          *)
(***************************************************************************)
\* DatasetTypeConfig: the field that get_exporter_config assigns
DatasetTypeConfig(datalink_url_fmt) ==
    [t |-> "DatasetTypeConfig", datalink_url_fmt |-> datalink_url_fmt]

\* str(self.datalink_url): the text of the URL, "None" for None
str_datalink_url(datalink_url) ==
    IF datalink_url = None THEN StrV(<<"N","o","n","e">>) ELSE StrV(datalink_url.v)

\* the loop of get_exporter_config over exporter_config.dataset_types
RECURSIVE dataset_types_loop(_, _)
dataset_types_loop(dataset_types, datalink_url) ==
    IF dataset_types = <<>> THEN <<>>
    ELSE <<Item(Head(dataset_types).k,
                [Head(dataset_types).v EXCEPT
                    !.datalink_url_fmt = str_datalink_url(datalink_url)])>>
         \o dataset_types_loop(Tail(dataset_types), datalink_url)

\* ButlerDataCollection.get_exporter_config; loaded is the export
\* configuration that model_validate returned
get_exporter_config(self, loaded) ==
    [loaded EXCEPT !.dataset_types = Dict(dataset_types_loop(@.d, self.datalink_url))]

(***************************************************************************)
(* The export configurations tried.                                        *)
(***************************************************************************)
V_raw == StrV(<<"r","a","w">>)
V_calexp == StrV(<<"c","a","l","e","x","p">>)
V_fmt == StrV(<<"h","t","t","p","s",":","/","/","d","l","/","{","i","d","}">>)
V_fmt2 == StrV(<<"h","t","t","p","s",":","/","/","d","2","/","{","i","d","}">>)
V_coadd == StrV(<<"d","e","e","p","C","o","a","d","d">>)
V_datalink == HttpUrl(<<"h","t","t","p","s",":","/","/","l","i","n","k","s">>)

\* the dicts of at most n dataset types: the names of a dict are distinct
DatasetTypes(n) ==
    { Dict(d) : d \in { x \in SeqsOf({ Item(k, DatasetTypeConfig(f)) :
                                          k \in {V_raw, V_calexp, V_coadd},
                                          f \in {None, V_fmt, V_fmt2} }, 0, n) :
                          \A i, j \in DOMAIN x : x[i].k = x[j].k => i = j } }

InitExporter ==
    /\ \E dts \in DatasetTypes(MaxItems) :
          call \in { [op |-> "get_exporter_config",
                      self |-> [ProcessCollections[1] EXCEPT !.butler_type = bt]
                                  @@ [datalink_url |-> u],
                      loaded |-> [t |-> "ExporterConfig", dataset_types |-> dts]] :
                       u \in {None, V_datalink}, bt \in {DIRECT, REMOTE} }
    /\ last = Idle
    /\ config = None
    /\ v2config = None

\* collection.get_exporter_config()
GetExporterConfig ==
    /\ call.op = "get_exporter_config" /\ last = Idle
    /\ last' = [op |-> call.op, out |-> get_exporter_config(call.self, call.loaded)]
    /\ UNCHANGED <<call, config, v2config>>

NextExporter ==
    \/ GetExporterConfig

SpecExporter == InitExporter /\ [][NextExporter]_vars

\* C27: get_exporter_config replaces the datalink URL format of the dataset
\* types of the export configuration only when the collection has a
\* datalink_url; for a collection whose datalink_url is unset, every dataset
\* type keeps the datalink format given in its export configuration.
C27_DatalinkFormatReplacedOnlyWhenSet ==
    last.op = "get_exporter_config" =>
        LET given == call.loaded.dataset_types.d
            got == last.out.dataset_types.d
        IN /\ Len(got) = Len(given)
           /\ \A i \in DOMAIN given :
                 /\ got[i].k = given[i].k
                 /\ got[i].v.datalink_url_fmt =
                        IF call.self.datalink_url # None
                        THEN StrV(call.self.datalink_url.v)
                        ELSE given[i].v.datalink_url_fmt

(***************************************************************************)
(* sia/dependencies: labeled_butler_factory_dependency, context_dependency *)
(* and obscore_config_dependency, the three process-wide singletons, and   *)
(* lifespan of sia/main.py, which initializes and closes them.  The        *)
(* variable config holds the fields of the three objects; created counts   *)
(* the LabeledButlerFactory instances made so far, and an instance carries *)
(* its number (id), so that two instances with equal repositories differ.  *)
(* Whether the export configuration of a collection can be loaded is       *)
(* outside the repository: call.load is the position of the first          *)
(* collection whose get_exporter_config raises, 0 if none does.            *)
(***************************************************************************)
\* the longest sequence of operations on the dependencies
MaxOps == 4

\* the three objects as their constructors (__init__) leave them
Dependencies ==
    [t |-> "dependencies", _labeled_butler_factory |-> None,
     _config |-> None, _process_context |-> None,
     _config_mapping |-> None, created |-> 0]

\* a labeled_butler_factory_dependency.aclose that keeps the factory
M_lbf_aclose(deps) == [deps |-> deps, out |-> None]

\* LabeledButlerFactoryDependency.initialize
lbf_initialize(deps, cfg) ==
    [deps |-> [deps EXCEPT
                  !._labeled_butler_factory =
                      LabeledButlerFactoryDependency_initialize(cfg)
                      @@ [id |-> deps.created + 1],
                  !.created = @ + 1],
     out |-> None]

\* LabeledButlerFactoryDependency.__call__
lbf_call(deps) ==
    [deps |-> deps,
     out |-> IF deps._labeled_butler_factory = None
             THEN Raise("RuntimeError",
                        <<Lit("LabeledButlerFactoryDependency is not initialized")>>)
             ELSE deps._labeled_butler_factory]

\* LabeledButlerFactoryDependency.aclose
lbf_aclose(deps) ==
    [deps |-> [deps EXCEPT !._labeled_butler_factory = None], out |-> None]

\* ContextDependency.initialize; ProcessContext.create calls
\* labeled_butler_factory_dependency() for the REMOTE kind, and what that
\* raises leaves initialize after the assignment of _config
context_initialize(deps, cfg, butler_type) ==
    LET held == IF butler_type = REMOTE THEN lbf_call(deps).out ELSE None
    IN IF IsExc(held)
       THEN [deps |-> [deps EXCEPT !._config = cfg], out |-> held]
       ELSE [deps |-> [deps EXCEPT !._config = cfg,
                                   !._process_context =
                                       ProcessContext_create(butler_type, held)],
             out |-> None]

\* ContextDependency.__call__
context_call(deps) ==
    [deps |-> deps,
     out |-> IF deps._config = None \/ deps._process_context = None
             THEN Raise("RuntimeError", <<Lit("ContextDependency not initialized")>>)
             ELSE [t |-> "RequestContext", config |-> deps._config,
                   factory |-> [t |-> "Factory",
                                process_context |-> deps._process_context]]]

\* ContextDependency.aclose
context_aclose(deps) ==
    [deps |-> [deps EXCEPT !._config = None, !._process_context = None], out |-> None]

\* the loop of ObscoreConfigDependency.initialize from collection i on
RECURSIVE obscore_loop(_, _, _, _)
obscore_loop(collections, i, load, config_mapping) ==
    IF i > Len(collections) THEN [mapping |-> config_mapping, out |-> None]
    ELSE IF i = load
    THEN [mapping |-> config_mapping,
          out |-> Raise("FileNotFoundError", <<collections[i].config>>)]
    ELSE obscore_loop(collections, i + 1, load,
                      DictSet(config_mapping, collections[i].label,
                              get_exporter_config(collections[i] @@ [datalink_url |-> None],
                                  [t |-> "ExporterConfig", dataset_types |-> Dict(<<>>)])))

\* ObscoreConfigDependency.initialize
obscore_initialize(deps, cfg, load) ==
    LET left == obscore_loop(cfg.butler_data_collections, 1, load, <<>>)
    IN [deps |-> [deps EXCEPT !._config_mapping = Dict(left.mapping)],
        out |-> left.out]

\* ObscoreConfigDependency.__call__
obscore_call(deps) ==
    [deps |-> deps,
     out |-> IF deps._config_mapping = None
             THEN Raise("RuntimeError",
                        <<Lit("ExporterConfigDependency is not initialized")>>)
             ELSE deps._config_mapping]

\* ObscoreConfigDependency.aclose
obscore_aclose(deps) ==
    [deps |-> [deps EXCEPT !._config_mapping = None], out |-> None]

(***************************************************************************)
(* The sequences of operations tried: any operations in any order (mode    *)
(* "free"), or lifespan with requests between startup and shutdown (mode   *)
(* "lifespan").  last holds the operation performed last with its outcome, *)
(* the number of operations so far, for every dependency whether           *)
(* initialize has been invoked on it since it was made or last closed, and *)
(* for lifespan the place reached.                                         *)
(***************************************************************************)
LBF == "labeled_butler_factory_dependency"
CTX == "context_dependency"
OBS == "obscore_config_dependency"

LifecycleCalls ==
    { [mode |-> m, config |-> cfg, butler_type |-> bt, load |-> ld] :
        m \in {"free", "lifespan"}, cfg \in ProcessConfigs, bt \in {DIRECT, REMOTE},
        ld \in 0..MaxCollections }

InitLifecycle ==
    /\ call \in LifecycleCalls
    /\ last = [op |-> "start", dep |-> "", out |-> None, n |-> 0,
               initialized |-> [d \in {LBF, CTX, OBS} |-> FALSE],
               pc |-> IF call.mode = "lifespan" THEN "startup" ELSE "free"]
    /\ config = Dependencies
    /\ v2config = None

\* the operation op of the dependency dep has left the dependencies and
\* the outcome of left
Operated(dep, op, left) ==
    /\ config' = left.deps
    /\ last' = [last EXCEPT !.op = op, !.dep = dep, !.out = left.out,
                   !.n = IF call.mode = "free" THEN @ + 1 ELSE @,
                   !.initialized[dep] = IF op = "initialize" THEN TRUE
                                        ELSE IF op = "aclose" THEN FALSE ELSE @]
    /\ UNCHANGED <<call, v2config>>

Free == call.mode = "free" /\ last.n < MaxOps

LbfInitialize == Free /\ Operated(LBF, "initialize", lbf_initialize(config, call.config))
LbfCall == Free /\ Operated(LBF, "call", lbf_call(config))
LbfAclose == Free /\ Operated(LBF, "aclose", lbf_aclose(config))
ContextInitialize ==
    Free /\ Operated(CTX, "initialize",
                     context_initialize(config, call.config, call.butler_type))
ContextCall == Free /\ Operated(CTX, "call", context_call(config))
ContextAclose == Free /\ Operated(CTX, "aclose", context_aclose(config))
ObscoreInitialize ==
    Free /\ Operated(OBS, "initialize",
                     obscore_initialize(config, call.config, call.load))
ObscoreCall == Free /\ Operated(OBS, "call", obscore_call(config))
ObscoreAclose == Free /\ Operated(OBS, "aclose", obscore_aclose(config))

\* lifespan up to its yield: the three initialize calls of lines 46-48
lifespan_startup(deps, cfg, butler_type) ==
    LET first == lbf_initialize(deps, cfg).deps
        second == context_initialize(first, cfg, butler_type).deps
    IN lbf_initialize(second, cfg).deps

\* lifespan after its yield: the three aclose calls of lines 52-54
lifespan_shutdown(deps) ==
    lbf_aclose(context_aclose(lbf_aclose(deps).deps).deps).deps

\* application startup
LifespanStartup ==
    /\ call.mode = "lifespan" /\ last.pc = "startup"
    /\ config' = lifespan_startup(config, call.config, call.butler_type)
    /\ last' = [last EXCEPT !.op = "lifespan", !.pc = "serving",
                            !.initialized = [d \in {LBF, CTX, OBS} |-> d # OBS]]
    /\ UNCHANGED <<call, v2config>>

\* a request asks context_dependency for its context
ServingContextCall ==
    /\ call.mode = "lifespan" /\ last.pc = "serving"
    /\ Operated(CTX, "call", context_call(config))

\* labeled_butler_factory_dependency is asked for the factory
ServingLbfCall ==
    /\ call.mode = "lifespan" /\ last.pc = "serving"
    /\ Operated(LBF, "call", lbf_call(config))

\* application shutdown
LifespanShutdown ==
    /\ call.mode = "lifespan" /\ last.pc = "serving"
    /\ config' = lifespan_shutdown(config)
    /\ last' = [last EXCEPT !.op = "lifespan", !.pc = "stopped", !.out = None,
                            !.initialized = [d \in {LBF, CTX, OBS} |-> FALSE]]
    /\ UNCHANGED <<call, v2config>>

NextLifecycle ==
    \/ LbfInitialize
    \/ LbfCall
    \/ LbfAclose
    \/ ContextInitialize
    \/ ContextCall
    \/ ContextAclose
    \/ ObscoreInitialize
    \/ ObscoreCall
    \/ ObscoreAclose
    \/ LifespanStartup
    \/ ServingContextCall
    \/ ServingLbfCall
    \/ LifespanShutdown

SpecLifecycle == InitLifecycle /\ [][NextLifecycle]_vars

\* the fields of the dependency dep
FieldsOf(deps, dep) ==
    CASE dep = LBF -> <<deps._labeled_butler_factory>>
      [] dep = CTX -> <<deps._config, deps._process_context>>
      [] dep = OBS -> <<deps._config_mapping>>

C29_ContextHoldsTheDependencysFactory ==
    (call.mode = "lifespan" /\ call.butler_type = REMOTE /\ last.pc = "serving") =>
        /\ config._process_context # None
        /\ config._process_context.labeled_butler_factory = lbf_call(config).out

\* C30: for every configured list of collections and every label, if the
\* lookup by label returns a collection c with a non-empty repository, then
\* the map of repositories built from the same list has an entry under
\* c.label whose value is the repository of c, also when labels repeat or
\* differ only in case.
C30_LookupAndRepositoryMapAgree ==
    /\ (last.op = "sia.lookup" /\ call.attribute = "label"
        /\ ~IsExc(last.out) /\ Truthy(last.out.repository)) =>
          LET butler_repos == DataCollectionService_get_data_repositories(config).d
          IN /\ DictHas(butler_repos, last.out.label)
             /\ DictGet(butler_repos, last.out.label) = PyStr(last.out.repository)
    /\ (last.op = "vosiav2.lookup"
        /\ ~IsExc(last.out) /\ Truthy(last.out.repository)) =>
          LET butler_repos == get_data_repositories(v2config).d
          IN /\ DictHas(butler_repos, last.out.label)
             /\ DictGet(butler_repos, last.out.label) = last.out.repository

====
